---- MODULE Spec2Model ----
(***************************************************************************)
(* IoT network routing: the connectivity core (node registry, edge         *)
(* derivation, validate / repair, load) in its two implementations, and    *)
(* the path engine.                                                        *)
(*                                                                         *)
(*   impl = "legacy"  src/iot_node.py: IoTNetwork keeps a list of IoTNode  *)
(*                    objects, each with its own x, y, communication_range *)
(*                    and a neighbours list (combining policy: min).       *)
(*   impl = "core"    src/src/iot_network_routing/core/network.py: the     *)
(*                    IoTNetwork keeps a NetworkX undirected graph (node   *)
(*                    attributes copied at add_node, weighted edges)       *)
(*                    beside the node objects and their neighbours lists   *)
(*                    (combining policy: max).  network.py reads and       *)
(*                    writes node.x, node.y, node.communication_range and  *)
(*                    the list node.neighbors, and calls                   *)
(*                    IoTNode.from_dict(data), node.add_neighbor,          *)
(*                    node.remove_neighbor, node.can_communicate_with and  *)
(*                    node.distance_to: the node objects it works on are   *)
(*                    the ones with that interface, i.e. objects holding   *)
(*                    their own attributes and neighbours list as in       *)
(*                    src/iot_node.py.                                     *)
(*                                                                         *)
(* Identities (EUI-64 strings) are the integers 1..MaxNodes, ordered as    *)
(* the strings are.  Coordinates and ranges are small integers; a distance *)
(* sqrt(dx^2 + dy^2) is carried as its square dx^2 + dy^2, and the test    *)
(* distance <= range is the test square <= range^2 (sqrt is monotone and   *)
(* ranges are positive).                                                   *)
(***************************************************************************)
EXTENDS Integers, Sequences, FiniteSets, TLC

\* Bounds of the model.
MaxNodes == 2
MaxCoord == 1
MaxRange == 2
MaxRecords == 2
MaxRefs == 2
MaxPathNodes == 2

Ids == 1..MaxNodes
Coords == 0..MaxCoord
Ranges == 1..MaxRange

VARIABLES
  impl,     \* "legacy" or "core": which IoTNetwork class the network is
  nodes,    \* the identities of the network's nodes, in insertion order
  objs,     \* identity -> node object [x, y, communication_range, neighbors]
  gattrs,   \* core: identity -> attributes stored in the graph
  gedges,   \* core: edge (a set {a, b}, or {a} for a self-loop) -> weight
  last,     \* the last operation, its argument where recorded, and what it returned
  network,        \* PathFinder.network: the loaded file, or None
  distance,       \* PathFinder.distance
  previous_nodes, \* PathFinder.previous_nodes
  answer,         \* the last PathFinder call and its outcome
  random_state    \* the state of the generator behind the functions of `random`

netvars == <<impl, nodes, objs, gattrs, gedges, last>>

pfvars == <<network, distance, previous_nodes, answer>>

vars == <<impl, nodes, objs, gattrs, gedges, last,
          network, distance, previous_nodes, answer, random_state>>

----------------------------------------------------------------------------
\* Sequences

Range(s) == {s[i] : i \in DOMAIN s}

Contains(s, e) == \E i \in DOMAIN s : s[i] = e

\* list.remove(e): drops the first occurrence of e
RemoveFirst(s, e) ==
  IF ~Contains(s, e) THEN s
  ELSE LET k == CHOOSE i \in DOMAIN s : s[i] = e /\ \A j \in 1..(i - 1) : s[j] # e
       IN  SubSeq(s, 1, k - 1) \o SubSeq(s, k + 1, Len(s))

Min(a, b) == IF a <= b THEN a ELSE b

Max(a, b) == IF a >= b THEN a ELSE b

Restrict(f, S) == [k \in S |-> f[k]]

EmptyMap == [k \in {} |-> 0]

None == "None"

----------------------------------------------------------------------------
\* Node objects (src/iot_node.py, class IoTNode)

NewNode(x, y, r) == [x |-> x, y |-> y, communication_range |-> r, neighbors |-> <<>>]

\* squared Euclidean distance between two attribute records
SqDist(p, q) == (p.x - q.x) * (p.x - q.x) + (p.y - q.y) * (p.y - q.y)

\* the range test with the boundary left out
WithinRangeStrict(d2, r) == d2 < r * r

\* distance d (given as its square) <= range r
WithinRange(d2, r) == d2 <= r * r

distance_to(o, a, b) == SqDist(o[a], o[b])

can_communicate_with(o, a, b) ==
  WithinRange(distance_to(o, a, b), o[a].communication_range)

add_neighbor(o, a, b) ==
  IF b = a THEN o
  ELSE IF ~can_communicate_with(o, a, b) THEN o
  ELSE LET o1 == IF ~Contains(o[a].neighbors, b)
                 THEN [o EXCEPT ![a].neighbors = Append(@, b)] ELSE o
       IN  IF ~Contains(o1[b].neighbors, a)
           THEN [o1 EXCEPT ![b].neighbors = Append(@, a)] ELSE o1

remove_neighbor(o, a, b) ==
  LET o1 == IF a \in DOMAIN o
            THEN [o EXCEPT ![a].neighbors = RemoveFirst(@, b)] ELSE o
  IN  IF b \in DOMAIN o1
      THEN [o1 EXCEPT ![b].neighbors = RemoveFirst(@, a)] ELSE o1

RECURSIVE AppendInRange(_, _, _, _)
AppendInRange(o, a, all, k) ==
  IF k > Len(all) THEN o
  ELSE LET n == all[k]
       IN  IF n # a /\ can_communicate_with(o, a, n)
           THEN AppendInRange([o EXCEPT ![a].neighbors = Append(@, n)], a, all, k + 1)
           ELSE AppendInRange(o, a, all, k + 1)

update_neighbors(o, a, all) ==
  AppendInRange([o EXCEPT ![a].neighbors = <<>>], a, all, 1)

----------------------------------------------------------------------------
\* IoTNetwork of src/iot_node.py (legacy): nodes list + per-node neighbours lists

\* an add_node without the check for a registered identity
legacy_add_node_unchecked(ns, o, id, x, y, r) ==
  [nodes |-> Append(ns, id),
   objs  |-> [k \in DOMAIN o \cup {id} |-> IF k = id THEN NewNode(x, y, r) ELSE o[k]],
   ret   |-> TRUE]

legacy_add_node(ns, o, id, x, y, r) ==
  IF id \in Range(ns)
  THEN [nodes |-> ns, objs |-> o, ret |-> FALSE]
  ELSE [nodes |-> Append(ns, id),
        objs  |-> [k \in DOMAIN o \cup {id} |-> IF k = id THEN NewNode(x, y, r) ELSE o[k]],
        ret   |-> TRUE]

\* a removal that leaves the neighbours lists of the other nodes alone
KeepNeighborLists(o, ns, id, k) == o

\* for other_node in self.nodes: other_node.remove_neighbor(node)
RECURSIVE RemoveFromAll(_, _, _, _)
RemoveFromAll(o, ns, id, k) ==
  IF k > Len(ns) THEN o
  ELSE RemoveFromAll(remove_neighbor(o, ns[k], id), ns, id, k + 1)

legacy_remove_node(ns, o, id) ==
  IF id \notin Range(ns)
  THEN [nodes |-> ns, objs |-> o, ret |-> FALSE]
  ELSE LET rest == RemoveFirst(ns, id)
       IN  [nodes |-> rest,
            objs  |-> Restrict(RemoveFromAll(o, rest, id, 1), Range(rest)),
            ret   |-> TRUE]

\* a rebuild that starts from the lists it finds
KeepNeighbors(o) == o

ClearNeighbors(o) == [k \in DOMAIN o |-> [o[k] EXCEPT !.neighbors = <<>>]]

\* a connection that appends on one side only
ConnectOneWay(o, a, b) ==
  IF ~Contains(o[a].neighbors, b)
  THEN [o EXCEPT ![a].neighbors = Append(@, b)] ELSE o

\* the two appends of a bidirectional connection between node objects a and b
Connect(o, a, b) ==
  LET o1 == IF ~Contains(o[a].neighbors, b)
            THEN [o EXCEPT ![a].neighbors = Append(@, b)] ELSE o
  IN  IF ~Contains(o1[b].neighbors, a)
      THEN [o1 EXCEPT ![b].neighbors = Append(@, a)] ELSE o1

RECURSIVE legacy_connect_pairs(_, _, _, _)
legacy_connect_pairs(o, ns, i, j) ==
  IF i > Len(ns) THEN o
  ELSE IF j > Len(ns) THEN legacy_connect_pairs(o, ns, i + 1, i + 2)
  ELSE LET a == ns[i]
           b == ns[j]
           dist      == distance_to(o, a, b)
           min_range == Min(o[a].communication_range, o[b].communication_range)
       IN  IF WithinRange(dist, min_range)
           THEN legacy_connect_pairs(Connect(o, a, b), ns, i, j + 1)
           ELSE legacy_connect_pairs(o, ns, i, j + 1)

legacy_update_all_connections(ns, o) ==
  legacy_connect_pairs(ClearNeighbors(o), ns, 1, 2)

legacy_validate(ns, o) ==
  \A i \in DOMAIN ns :
    \A k \in DOMAIN o[ns[i]].neighbors :
      LET nb == o[ns[i]].neighbors[k]
      IN  nb \in DOMAIN o /\ Contains(o[nb].neighbors, ns[i])

\* the inner loop of fix_bidirectional_connections over a copy of node.neighbors
RECURSIVE legacy_fix_node(_, _, _, _)
legacy_fix_node(st, node, copy, k) ==
  IF k > Len(copy) THEN st
  ELSE LET nb == copy[k]
       IN  IF nb \notin DOMAIN st.objs \/ Contains(st.objs[nb].neighbors, node)
           THEN legacy_fix_node(st, node, copy, k + 1)
           ELSE IF can_communicate_with(st.objs, node, nb)
           THEN legacy_fix_node(
                  [objs  |-> [st.objs EXCEPT ![nb].neighbors = Append(@, node)],
                   fixes |-> st.fixes + 1], node, copy, k + 1)
           ELSE legacy_fix_node(
                  [objs  |-> [st.objs EXCEPT ![node].neighbors = RemoveFirst(@, nb)],
                   fixes |-> st.fixes + 1], node, copy, k + 1)

RECURSIVE legacy_fix_nodes(_, _, _)
legacy_fix_nodes(st, ns, i) ==
  IF i > Len(ns) THEN st
  ELSE legacy_fix_nodes(legacy_fix_node(st, ns[i], st.objs[ns[i]].neighbors, 1), ns, i + 1)

\* a repair that reports the number of nodes it went through
legacy_fix_counting_nodes(ns, o) ==
  [objs  |-> legacy_fix_nodes([objs |-> o, fixes |-> 0], ns, 1).objs,
   fixes |-> Len(ns)]

legacy_fix(ns, o) == legacy_fix_nodes([objs |-> o, fixes |-> 0], ns, 1)

----------------------------------------------------------------------------
\* IoTNetwork of core/network.py: NetworkX graph + node objects

Attrs(x, y, r) == [x |-> x, y |-> y, communication_range |-> r]

\* graph.has_edge(a, b)
has_edge(e, a, b) == {a, b} \in DOMAIN e

\* graph.add_edge(a, b, weight=w): adds the edge or overwrites its weight
add_edge(e, a, b, w) ==
  [k \in DOMAIN e \cup {{a, b}} |-> IF k = {a, b} THEN w ELSE e[k]]

\* graph.remove_edge(a, b)
remove_edge(e, a, b) == Restrict(e, DOMAIN e \ {{a, b}})

\* set(graph.neighbors(n)): a self-loop makes n its own neighbour
graph_neighbors(e, n) == {m \in UNION (DOMAIN e) : {n, m} \in DOMAIN e}

core_add_node(ns, o, ga, id, x, y, r) ==
  IF id \in DOMAIN o
  THEN [nodes |-> ns, objs |-> o, gattrs |-> ga, ret |-> FALSE]
  ELSE LET node == NewNode(x, y, r)
       IN  [nodes  |-> Append(ns, id),
            objs   |-> [k \in DOMAIN o \cup {id} |-> IF k = id THEN node ELSE o[k]],
            gattrs |-> [k \in DOMAIN ga \cup {id} |->
                          IF k = id THEN Attrs(node.x, node.y, node.communication_range)
                          ELSE ga[k]],
            ret    |-> TRUE]

core_remove_node(ns, o, ga, e, id) ==
  IF id \notin DOMAIN o
  THEN [nodes |-> ns, objs |-> o, gattrs |-> ga, gedges |-> e, ret |-> FALSE]
  ELSE LET rest == RemoveFirst(ns, id)
       IN  [nodes  |-> rest,
            objs   |-> Restrict(RemoveFromAll(o, rest, id, 1), Range(rest)),
            gattrs |-> Restrict(ga, DOMAIN ga \ {id}),
            gedges |-> Restrict(e, {k \in DOMAIN e : id \notin k}),
            ret    |-> TRUE]

RECURSIVE core_connect_pairs(_, _, _, _, _)
core_connect_pairs(st, ns, ga, i, j) ==
  IF i > Len(ns) THEN st
  ELSE IF j > Len(ns) THEN core_connect_pairs(st, ns, ga, i + 1, i + 2)
  ELSE LET node1_id  == ns[i]
           node2_id  == ns[j]
           dist      == SqDist(ga[node1_id], ga[node2_id])
           max_range == Max(ga[node1_id].communication_range,
                            ga[node2_id].communication_range)
       IN  IF WithinRange(dist, max_range)
           THEN core_connect_pairs(
                  [objs   |-> Connect(st.objs, node1_id, node2_id),
                   gedges |-> add_edge(st.gedges, node1_id, node2_id, dist)],
                  ns, ga, i, j + 1)
           ELSE core_connect_pairs(st, ns, ga, i, j + 1)

core_update_all_connections(ns, o, ga) ==
  core_connect_pairs([objs |-> ClearNeighbors(o), gedges |-> EmptyMap], ns, ga, 1, 2)

\* a validate that looks at the neighbours lists only
core_validate_lists_only(ns, o, e) == legacy_validate(ns, o)

core_validate(ns, o, e) ==
  /\ legacy_validate(ns, o)
  /\ \A i \in DOMAIN ns : graph_neighbors(e, ns[i]) = Range(o[ns[i]].neighbors)

\* for neighbor_id in graph_neighbors - obj_neighbors, in the set's iteration
\* order (ord lists the identities in that order)
RECURSIVE core_sync_add(_, _, _, _, _)
core_sync_add(st, node, missing, ord, k) ==
  IF k > Len(ord) THEN st
  ELSE IF ord[k] \in missing
  THEN core_sync_add(
         [st EXCEPT !.objs[node].neighbors = Append(@, ord[k]), !.fixes = @ + 1],
         node, missing, ord, k + 1)
  ELSE core_sync_add(st, node, missing, ord, k + 1)

\* for neighbor in list(node_obj.neighbors): drop the ones the graph lacks
RECURSIVE core_sync_remove(_, _, _, _, _)
core_sync_remove(st, node, gn, copy, k) ==
  IF k > Len(copy) THEN st
  ELSE IF copy[k] \notin gn
  THEN core_sync_remove(
         [st EXCEPT !.objs[node].neighbors = RemoveFirst(@, copy[k]), !.fixes = @ + 1],
         node, gn, copy, k + 1)
  ELSE core_sync_remove(st, node, gn, copy, k + 1)

RECURSIVE core_sync_nodes(_, _, _, _)
core_sync_nodes(st, ns, ord, i) ==
  IF i > Len(ns) THEN st
  ELSE LET node  == ns[i]
           gn    == graph_neighbors(st.gedges, node)
           added == core_sync_add(st, node, gn \ Range(st.objs[node].neighbors), ord, 1)
       IN  core_sync_nodes(
             core_sync_remove(added, node, gn, added.objs[node].neighbors, 1),
             ns, ord, i + 1)

RECURSIVE core_fix_node(_, _, _, _)
core_fix_node(st, node, copy, k) ==
  IF k > Len(copy) THEN st
  ELSE LET nb == copy[k]
       IN  IF nb \notin DOMAIN st.objs \/ Contains(st.objs[nb].neighbors, node)
           THEN core_fix_node(st, node, copy, k + 1)
           ELSE IF can_communicate_with(st.objs, node, nb)
           THEN core_fix_node(
                  [objs   |-> [st.objs EXCEPT ![nb].neighbors = Append(@, node)],
                   gedges |-> IF ~has_edge(st.gedges, node, nb)
                              THEN add_edge(st.gedges, node, nb, distance_to(st.objs, node, nb))
                              ELSE st.gedges,
                   fixes  |-> st.fixes + 1], node, copy, k + 1)
           ELSE core_fix_node(
                  [objs   |-> [st.objs EXCEPT ![node].neighbors = RemoveFirst(@, nb)],
                   gedges |-> IF has_edge(st.gedges, node, nb)
                              THEN remove_edge(st.gedges, node, nb)
                              ELSE st.gedges,
                   fixes  |-> st.fixes + 1], node, copy, k + 1)

RECURSIVE core_fix_nodes(_, _, _)
core_fix_nodes(st, ns, i) ==
  IF i > Len(ns) THEN st
  ELSE core_fix_nodes(core_fix_node(st, ns[i], st.objs[ns[i]].neighbors, 1), ns, i + 1)

core_fix(ns, o, e, ord) ==
  core_fix_nodes(
    core_sync_nodes([objs |-> o, gedges |-> e, fixes |-> 0], ns, ord, 1), ns, 1)

----------------------------------------------------------------------------
\* Persisted network files and load_from_file

RECURSIVE SeqsUpTo(_, _)
SeqsUpTo(S, n) ==
  IF n = 0 THEN {<<>>}
  ELSE LET shorter == SeqsUpTo(S, n - 1)
       IN  shorter \cup {Append(q, e) : q \in {t \in shorter : Len(t) = n - 1}, e \in S}

NodeRecords ==
  [eui64 : Ids, x : Coords, y : Coords, communication_range : Ranges,
   neighbors : SeqsUpTo(Ids, MaxRefs)]

\* two nodes at one place without references, then a second record of the first
\* identity that lists the second node
DuplicateRecordFile ==
  <<[eui64 |-> 1, x |-> 0, y |-> 0, communication_range |-> 1, neighbors |-> <<>>],
    [eui64 |-> 2, x |-> 0, y |-> 0, communication_range |-> 1, neighbors |-> <<>>],
    [eui64 |-> 1, x |-> 0, y |-> 0, communication_range |-> 1, neighbors |-> <<2>>]>>

Files == SeqsUpTo(NodeRecords, MaxRecords) \cup {DuplicateRecordFile}

\* IoTNode.from_dict(node_data)
from_dict(data) == NewNode(data.x, data.y, data.communication_range)

\* first pass: create all nodes
RECURSIVE legacy_load_nodes(_, _, _)
legacy_load_nodes(st, data, k) ==
  IF k > Len(data) THEN st
  ELSE LET node == from_dict(data[k])
           r == legacy_add_node(st.nodes, st.objs, data[k].eui64,
                                node.x, node.y, node.communication_range)
       IN  legacy_load_nodes([nodes |-> r.nodes, objs |-> r.objs], data, k + 1)

RECURSIVE legacy_load_refs(_, _, _, _)
legacy_load_refs(o, node, refs, k) ==
  IF k > Len(refs) THEN o
  ELSE IF refs[k] \in DOMAIN o
  THEN legacy_load_refs(add_neighbor(o, node, refs[k]), node, refs, k + 1)
  ELSE legacy_load_refs(o, node, refs, k + 1)

\* second pass: establish connections
RECURSIVE legacy_load_edges(_, _, _)
legacy_load_edges(o, data, k) ==
  IF k > Len(data) THEN o
  ELSE legacy_load_edges(
         legacy_load_refs(o, data[k].eui64, data[k].neighbors, 1), data, k + 1)

legacy_load_from_file(data) ==
  LET first == legacy_load_nodes([nodes |-> <<>>, objs |-> EmptyMap], data, 1)
  IN  [nodes |-> first.nodes, objs |-> legacy_load_edges(first.objs, data, 1)]

RECURSIVE core_load_nodes(_, _, _)
core_load_nodes(st, data, k) ==
  IF k > Len(data) THEN st
  ELSE LET node == from_dict(data[k])
           r == core_add_node(st.nodes, st.objs, st.gattrs, data[k].eui64,
                              node.x, node.y, node.communication_range)
       IN  core_load_nodes([nodes |-> r.nodes, objs |-> r.objs, gattrs |-> r.gattrs],
                           data, k + 1)

RECURSIVE core_load_refs(_, _, _, _)
core_load_refs(st, node, refs, k) ==
  IF k > Len(refs) THEN st
  ELSE IF refs[k] \in DOMAIN st.objs /\ ~has_edge(st.gedges, node, refs[k])
  THEN core_load_refs(
         [objs   |-> add_neighbor(st.objs, node, refs[k]),
          gedges |-> add_edge(st.gedges, node, refs[k], distance_to(st.objs, node, refs[k]))],
         node, refs, k + 1)
  ELSE core_load_refs(st, node, refs, k + 1)

RECURSIVE core_load_edges(_, _, _)
core_load_edges(st, data, k) ==
  IF k > Len(data) THEN st
  ELSE core_load_edges(
         core_load_refs(st, data[k].eui64, data[k].neighbors, 1), data, k + 1)

core_load_from_file(data) ==
  LET first  == core_load_nodes([nodes |-> <<>>, objs |-> EmptyMap, gattrs |-> EmptyMap],
                                data, 1)
      second == core_load_edges([objs |-> first.objs, gedges |-> EmptyMap], data, 1)
  IN  [nodes |-> first.nodes, objs |-> second.objs,
       gattrs |-> first.gattrs, gedges |-> second.gedges]

\* node.to_dict() for node in self.nodes: the 'nodes' entry of IoTNetwork.to_dict()
to_dict(ns, o) ==
  [i \in 1..Len(ns) |->
     [eui64 |-> ns[i], x |-> o[ns[i]].x, y |-> o[ns[i]].y,
      communication_range |-> o[ns[i]].communication_range,
      neighbors |-> o[ns[i]].neighbors]]

\* IoTNetwork.load_from_file in the implementation im
load_from_file(im, data) ==
  IF im = "legacy"
  THEN LET res == legacy_load_from_file(data)
       IN  [nodes |-> res.nodes, objs |-> res.objs,
            gattrs |-> EmptyMap, gedges |-> EmptyMap]
  ELSE core_load_from_file(data)

\* load_from_file(save_to_file(network)) in the implementation im
load_saved(im, ns, o) == load_from_file(im, to_dict(ns, o))

----------------------------------------------------------------------------
\* The network as a state machine

Orderings(S) == {q \in SeqsUpTo(S, Cardinality(S)) : Range(q) = S}

NetInit ==
  /\ impl \in {"legacy", "core"}
  /\ nodes = <<>>
  /\ objs = EmptyMap
  /\ gattrs = EmptyMap
  /\ gedges = EmptyMap
  /\ last = [op |-> "init", arg |-> None, ret |-> None]

PathIdle ==
  /\ network = [loaded |-> FALSE, nodes |-> <<>>]
  /\ distance = EmptyMap
  /\ previous_nodes = EmptyMap
  /\ answer = [op |-> "init", source |-> 0, destination |-> 0, kind |-> "done",
               path |-> <<>>, hops |-> 0]

\* no component of these specifications draws a random number: the generator
\* stays in whatever state it is in
RandomIdle == random_state = 0

Init == NetInit /\ PathIdle /\ RandomIdle

AddNode(id, x, y, r) ==
  /\ IF impl = "legacy"
     THEN LET res == legacy_add_node(nodes, objs, id, x, y, r)
          IN  /\ nodes' = res.nodes
              /\ objs' = res.objs
              /\ gattrs' = gattrs
              /\ last' = [op |-> "add_node", arg |-> id, ret |-> res.ret]
     ELSE LET res == core_add_node(nodes, objs, gattrs, id, x, y, r)
          IN  /\ nodes' = res.nodes
              /\ objs' = res.objs
              /\ gattrs' = res.gattrs
              /\ last' = [op |-> "add_node", arg |-> id, ret |-> res.ret]
  /\ UNCHANGED <<impl, gedges>>
  /\ UNCHANGED pfvars
  /\ UNCHANGED random_state

RemoveNode(id) ==
  /\ IF impl = "legacy"
     THEN LET res == legacy_remove_node(nodes, objs, id)
          IN  /\ nodes' = res.nodes
              /\ objs' = res.objs
              /\ gattrs' = gattrs
              /\ gedges' = gedges
              /\ last' = [op |-> "remove_node", arg |-> id, ret |-> res.ret]
     ELSE LET res == core_remove_node(nodes, objs, gattrs, gedges, id)
          IN  /\ nodes' = res.nodes
              /\ objs' = res.objs
              /\ gattrs' = res.gattrs
              /\ gedges' = res.gedges
              /\ last' = [op |-> "remove_node", arg |-> id, ret |-> res.ret]
  /\ UNCHANGED impl
  /\ UNCHANGED pfvars
  /\ UNCHANGED random_state

UpdateAllConnections ==
  /\ IF impl = "legacy"
     THEN /\ objs' = legacy_update_all_connections(nodes, objs)
          /\ gedges' = gedges
     ELSE LET res == core_update_all_connections(nodes, objs, gattrs)
          IN  /\ objs' = res.objs
              /\ gedges' = res.gedges
  /\ last' = [op |-> "update_all_connections", arg |-> None, ret |-> None]
  /\ UNCHANGED <<impl, nodes, gattrs>>
  /\ UNCHANGED pfvars
  /\ UNCHANGED random_state

validate_bidirectional_connections ==
  IF impl = "legacy" THEN legacy_validate(nodes, objs)
  ELSE core_validate(nodes, objs, gedges)

FixBidirectionalConnections ==
  /\ IF impl = "legacy"
     THEN LET res == legacy_fix(nodes, objs)
          IN  /\ objs' = res.objs
              /\ gedges' = gedges
              /\ last' = [op |-> "fix", arg |-> None, ret |-> res.fixes]
     ELSE \E ord \in Orderings(Ids) :
            LET res == core_fix(nodes, objs, gedges, ord)
            IN  /\ objs' = res.objs
                /\ gedges' = res.gedges
                /\ last' = [op |-> "fix", arg |-> None, ret |-> res.fixes]
  /\ UNCHANGED <<impl, nodes, gattrs>>
  /\ UNCHANGED pfvars
  /\ UNCHANGED random_state

\* IoTNetwork.load_from_file builds a new network: it starts from the empty one
LoadFromFile(data) ==
  /\ IF impl = "legacy"
     THEN LET res == legacy_load_from_file(data)
          IN  /\ nodes' = res.nodes
              /\ objs' = res.objs
              /\ gattrs' = gattrs
              /\ gedges' = gedges
     ELSE LET res == core_load_from_file(data)
          IN  /\ nodes' = res.nodes
              /\ objs' = res.objs
              /\ gattrs' = res.gattrs
              /\ gedges' = res.gedges
  /\ last' = [op |-> "load_from_file", arg |-> data, ret |-> None]
  /\ UNCHANGED impl
  /\ UNCHANGED pfvars
  /\ UNCHANGED random_state

\* node.add_neighbor(neighbor) on two node objects of the network
AddNeighbor(a, b) ==
  /\ a \in DOMAIN objs /\ b \in DOMAIN objs
  /\ objs' = add_neighbor(objs, a, b)
  /\ last' = [op |-> "add_neighbor", arg |-> None, ret |-> (objs' # objs)]
  /\ UNCHANGED <<impl, nodes, gattrs, gedges>>
  /\ UNCHANGED pfvars
  /\ UNCHANGED random_state

RemoveNeighbor(a, b) ==
  /\ a \in DOMAIN objs /\ b \in DOMAIN objs
  /\ objs' = remove_neighbor(objs, a, b)
  /\ last' = [op |-> "remove_neighbor", arg |-> None, ret |-> (objs' # objs)]
  /\ UNCHANGED <<impl, nodes, gattrs, gedges>>
  /\ UNCHANGED pfvars
  /\ UNCHANGED random_state

\* node.update_neighbors(network.nodes)
UpdateNeighbors(a) ==
  /\ a \in DOMAIN objs
  /\ objs' = update_neighbors(objs, a, nodes)
  /\ last' = [op |-> "update_neighbors", arg |-> None, ret |-> None]
  /\ UNCHANGED <<impl, nodes, gattrs, gedges>>
  /\ UNCHANGED pfvars
  /\ UNCHANGED random_state

\* node.x = v, node.y = v or node.communication_range = v on a node object of
\* the legacy network, whose operations read the attributes from the objects
SetAttribute(a, x, y, r) ==
  /\ impl = "legacy"
  /\ a \in DOMAIN objs
  /\ \/ x # objs[a].x /\ y = objs[a].y /\ r = objs[a].communication_range
     \/ x = objs[a].x /\ y # objs[a].y /\ r = objs[a].communication_range
     \/ x = objs[a].x /\ y = objs[a].y /\ r # objs[a].communication_range
  /\ objs' = [objs EXCEPT ![a].x = x, ![a].y = y, ![a].communication_range = r]
  /\ last' = [op |-> "set_attribute", arg |-> None, ret |-> None]
  /\ UNCHANGED <<impl, nodes, gattrs, gedges>>
  /\ UNCHANGED pfvars
  /\ UNCHANGED random_state

NetNext ==
  \/ \E id \in Ids, x \in Coords, y \in Coords, r \in Ranges : AddNode(id, x, y, r)
  \/ \E id \in Ids : RemoveNode(id)
  \/ UpdateAllConnections
  \/ FixBidirectionalConnections
  \/ nodes = <<>> /\ \E data \in Files : LoadFromFile(data)
  \/ \E a \in Ids, b \in Ids : AddNeighbor(a, b)
  \/ \E a \in Ids, b \in Ids : RemoveNeighbor(a, b)
  \/ \E a \in Ids : UpdateNeighbors(a)
  \/ \E a \in Ids, x \in Coords, y \in Coords, r \in Ranges : SetAttribute(a, x, y, r)

Spec == Init /\ [][NetNext]_vars

----------------------------------------------------------------------------
\* PathFinder (utils/pathfinder.py).  It reads only eui64 and neighbors of the
\* records of the file it loads.

Infinity == 1000

NoNode == 0

PathIds == 1..MaxPathNodes

\* an identity that no file contains
Strangers == {99}

PathRecords == [eui64 : PathIds, neighbors : SeqsUpTo(PathIds \cup Strangers, MaxRefs)]

PathRecord(id, refs) == [eui64 |-> id, neighbors |-> refs]

\* A-B, B-C, C-D
PathGraphFile ==
  <<PathRecord(11, <<12>>), PathRecord(12, <<11, 13>>),
    PathRecord(13, <<12, 14>>), PathRecord(14, <<13>>)>>

\* A-B and C-D: two components
TwoComponentsFile ==
  <<PathRecord(11, <<12>>), PathRecord(12, <<11>>),
    PathRecord(13, <<14>>), PathRecord(14, <<13>>)>>

\* A-B, A-C, B-D, C-D: two shortest paths from A to D, written with the
\* records and the neighbour entries in descending order
DiamondFile ==
  <<PathRecord(14, <<13, 12>>), PathRecord(13, <<14, 11>>),
    PathRecord(12, <<14, 11>>), PathRecord(11, <<13, 12>>)>>

\* the same network with the records and the entries in ascending order
DiamondFileAscending ==
  <<PathRecord(11, <<12, 13>>), PathRecord(12, <<11, 14>>),
    PathRecord(13, <<11, 14>>), PathRecord(14, <<12, 13>>)>>

PathFiles ==
  SeqsUpTo(PathRecords, MaxPathNodes)
    \cup {PathGraphFile, TwoComponentsFile, DiamondFile, DiamondFileAscending}

\* the identities of the records of a file
FileIds(data) == {data[i].eui64 : i \in DOMAIN data}

\* the identities a file names in neighbour lists
FileRefs(data) == UNION {Range(data[i].neighbors) : i \in DOMAIN data}

QueryIds(data) == FileIds(data) \cup FileRefs(data) \cup Strangers

SetKey(f, k, v) == [x \in DOMAIN f \cup {k} |-> IF x = k THEN v ELSE f[x]]

\* for node in self.network['nodes']: distance = inf, previous = None
RECURSIVE reset_all(_, _, _)
reset_all(st, data, k) ==
  IF k > Len(data) THEN st
  ELSE reset_all(
         [st EXCEPT !.distance = SetKey(@, data[k].eui64, Infinity),
                    !.previous_nodes = SetKey(@, data[k].eui64, NoNode)],
         data, k + 1)

\* an order of the queue that prefers the larger identity at equal distance
TupleLessLargestFirst(p, q) == p[1] < q[1] \/ (p[1] = q[1] /\ p[2] > q[2])

\* heapq orders the tuples (distance, identity) lexicographically
TupleLess(p, q) == p[1] < q[1] \/ (p[1] = q[1] /\ p[2] < q[2])

heappop(pq) == CHOOSE p \in pq : \A q \in pq \ {p} : TupleLess(p, q)

\* the first record of the file with this identity, 0 when there is none
RecordOf(data, id) ==
  IF id \in FileIds(data)
  THEN CHOOSE i \in DOMAIN data :
         data[i].eui64 = id /\ \A j \in 1..(i - 1) : data[j].eui64 # id
  ELSE 0

\* a relaxation that does not count the edge it follows
RECURSIVE relax_without_step(_, _, _, _, _)
relax_without_step(st, current_node, current_distance, refs, k) ==
  IF k > Len(refs) THEN st
  ELSE LET neighbor_id == refs[k]
           path == current_distance
       IN  IF neighbor_id \notin DOMAIN st.distance
           THEN [st EXCEPT !.raised = TRUE]
           ELSE IF path < st.distance[neighbor_id]
           THEN relax_without_step(
                  [st EXCEPT !.distance = SetKey(@, neighbor_id, path),
                             !.previous_nodes = SetKey(@, neighbor_id, current_node),
                             !.queue = @ \cup {<<path, neighbor_id>>}],
                  current_node, current_distance, refs, k + 1)
           ELSE relax_without_step(st, current_node, current_distance, refs, k + 1)

\* for neighbor_id in node['neighbors']: the relaxation; self.distance[neighbor_id]
\* raises KeyError when neighbor_id is no key of the dict
RECURSIVE relax(_, _, _, _, _)
relax(st, current_node, current_distance, refs, k) ==
  IF k > Len(refs) THEN st
  ELSE LET neighbor_id == refs[k]
           path == current_distance + 1
       IN  IF neighbor_id \notin DOMAIN st.distance
           THEN [st EXCEPT !.raised = TRUE]
           ELSE IF path < st.distance[neighbor_id]
           THEN relax(
                  [st EXCEPT !.distance = SetKey(@, neighbor_id, path),
                             !.previous_nodes = SetKey(@, neighbor_id, current_node),
                             !.queue = @ \cup {<<path, neighbor_id>>}],
                  current_node, current_distance, refs, k + 1)
           ELSE relax(st, current_node, current_distance, refs, k + 1)

\* while priority_queue: ...
RECURSIVE drain(_, _)
drain(st, data) ==
  IF st.raised \/ st.queue = {} THEN st
  ELSE LET top == heappop(st.queue)
           current_distance == top[1]
           current_node == top[2]
           popped == [st EXCEPT !.queue = @ \ {top}]
           rec == RecordOf(data, current_node)
       IN  IF current_distance > st.distance[current_node] THEN drain(popped, data)
           ELSE IF rec = 0 THEN drain(popped, data)
           ELSE drain(relax(popped, current_node, current_distance,
                            data[rec].neighbors, 1), data)

Search(dist, prev) ==
  [distance |-> dist, previous_nodes |-> prev, queue |-> {}, raised |-> FALSE]

initialize(data, dist, prev) == reset_all(Search(dist, prev), data, 1)

calculate_paths_from_source(data, dist, prev, source_id) ==
  LET cleared == reset_all(Search(dist, prev), data, 1)
  IN  drain([cleared EXCEPT !.distance = SetKey(@, source_id, 0),
                            !.queue = {<<0, source_id>>}], data)

\* the loop of calculate_paths over the start nodes: no reset between them
RECURSIVE calculate_from_each(_, _, _)
calculate_from_each(st, data, k) ==
  IF st.raised \/ k > Len(data) THEN st
  ELSE LET start_id == data[k].eui64
       IN  calculate_from_each(
             drain([st EXCEPT !.distance = SetKey(@, start_id, 0),
                              !.queue = {<<0, start_id>>}], data),
             data, k + 1)

calculate_paths(data, dist, prev) == calculate_from_each(Search(dist, prev), data, 1)

\* a path left in the order of the walk back from the destination
Unreversed(s) == s

Reverse(s) == [i \in 1..Len(s) |-> s[Len(s) + 1 - i]]

\* while current is not None: path.append(current); current = previous_nodes[current]
\* ("raise": KeyError; "hang": the predecessors form a cycle)
RECURSIVE walk_back(_, _, _)
walk_back(prev, current, path) ==
  IF current = NoNode THEN [kind |-> "path", path |-> path]
  ELSE IF current \notin DOMAIN prev THEN [kind |-> "raise", path |-> path]
  ELSE IF Contains(path, current) THEN [kind |-> "hang", path |-> path]
  ELSE walk_back(prev, prev[current], Append(path, current))

Returned(kind, path, hops) == [kind |-> kind, path |-> path, hops |-> hops]

\* what find_path does after the search: kind "path" for (path, distance),
\* "none" for (None, inf), "raise" when an exception leaves the call
find_path_result(st, destination_id) ==
  IF st.raised \/ destination_id \notin DOMAIN st.distance
  THEN Returned("raise", <<>>, Infinity)
  ELSE IF st.distance[destination_id] = Infinity
  THEN Returned("none", <<>>, Infinity)
  ELSE LET back == walk_back(st.previous_nodes, destination_id, <<>>)
       IN  IF back.kind = "path"
           THEN Returned("path", Reverse(back.path), st.distance[destination_id])
           ELSE Returned(back.kind, <<>>, Infinity)

find_path(data, dist, prev, source_id, destination_id) ==
  LET st == calculate_paths_from_source(data, dist, prev, source_id)
  IN  [distance |-> st.distance, previous_nodes |-> st.previous_nodes,
       result |-> find_path_result(st, destination_id)]

\* save_paths: one entry per record of the file, read from the two dicts;
\* self.distance[node_id] raises KeyError for an identity that is no key, and
\* the output file is opened after the loop only
save_paths(data, dist, prev) ==
  IF \E i \in DOMAIN data :
       data[i].eui64 \notin DOMAIN dist \/ data[i].eui64 \notin DOMAIN prev
  THEN Returned("raise", <<>>, 0)
  ELSE Returned("done",
                [i \in 1..Len(data) |->
                   [eui64    |-> data[i].eui64,
                    distance |-> dist[data[i].eui64],
                    previous |-> prev[data[i].eui64]]],
                0)

\* what the find_path handler of web/app.py answers for the pair (path,
\* distance) the path function gave it
find_path_response(res) ==
  IF res.kind = "none"
  THEN [path |-> None, distance |-> Infinity, reachable |-> FALSE]
  ELSE [path |-> res.path, distance |-> res.hops, reachable |-> TRUE,
        hop_count |-> Len(res.path) - 1]

----------------------------------------------------------------------------
\* The PathFinder as a state machine

NetIdle ==
  /\ impl = "core"
  /\ nodes = <<>>
  /\ objs = EmptyMap
  /\ gattrs = EmptyMap
  /\ gedges = EmptyMap
  /\ last = [op |-> "init", arg |-> None, ret |-> None]

PathInit == NetIdle /\ PathIdle /\ RandomIdle

Called(op, s, d, res) ==
  [op |-> op, source |-> s, destination |-> d,
   kind |-> res.kind, path |-> res.path, hops |-> res.hops]

Done(raised) == Returned(IF raised THEN "raise" ELSE "done", <<>>, 0)

\* PathFinder(network_file).load_network()
LoadNetwork(data) ==
  /\ network' = [loaded |-> TRUE, nodes |-> data]
  /\ answer' = Called("load_network", NoNode, NoNode, Done(FALSE))
  /\ UNCHANGED <<distance, previous_nodes>>
  /\ UNCHANGED netvars
  /\ UNCHANGED random_state

Initialize ==
  /\ network.loaded
  /\ LET st == initialize(network.nodes, distance, previous_nodes)
     IN  /\ distance' = st.distance
         /\ previous_nodes' = st.previous_nodes
  /\ answer' = Called("initialize", NoNode, NoNode, Done(FALSE))
  /\ UNCHANGED network
  /\ UNCHANGED netvars
  /\ UNCHANGED random_state

CalculatePathsFromSource(s) ==
  /\ network.loaded
  /\ LET st == calculate_paths_from_source(network.nodes, distance, previous_nodes, s)
     IN  /\ distance' = st.distance
         /\ previous_nodes' = st.previous_nodes
         /\ answer' = Called("calculate_paths_from_source", s, NoNode, Done(st.raised))
  /\ UNCHANGED network
  /\ UNCHANGED netvars
  /\ UNCHANGED random_state

CalculatePaths ==
  /\ network.loaded
  /\ LET st == calculate_paths(network.nodes, distance, previous_nodes)
     IN  /\ distance' = st.distance
         /\ previous_nodes' = st.previous_nodes
         /\ answer' = Called("calculate_paths", NoNode, NoNode, Done(st.raised))
  /\ UNCHANGED network
  /\ UNCHANGED netvars
  /\ UNCHANGED random_state

FindPath(s, d) ==
  /\ network.loaded
  /\ LET res == find_path(network.nodes, distance, previous_nodes, s, d)
     IN  /\ distance' = res.distance
         /\ previous_nodes' = res.previous_nodes
         /\ answer' = Called("find_path", s, d, res.result)
  /\ UNCHANGED network
  /\ UNCHANGED netvars
  /\ UNCHANGED random_state

\* path_finder.save_paths(output): answer.path holds the entries written
SavePaths ==
  /\ network.loaded
  /\ answer' = Called("save_paths", NoNode, NoNode,
                      save_paths(network.nodes, distance, previous_nodes))
  /\ UNCHANGED <<network, distance, previous_nodes>>
  /\ UNCHANGED netvars
  /\ UNCHANGED random_state

PathNext ==
  \/ ~network.loaded /\ \E data \in PathFiles : LoadNetwork(data)
  \/ Initialize
  \/ \E s \in QueryIds(network.nodes) : CalculatePathsFromSource(s)
  \/ CalculatePaths
  \/ \E s \in QueryIds(network.nodes), d \in QueryIds(network.nodes) : FindPath(s, d)
  \/ SavePaths

SpecPath == PathInit /\ [][PathNext]_vars

----------------------------------------------------------------------------
\* The ways a network file is loaded and then used: the handlers of the web
\* applications (src/app.py over the legacy IoTNetwork, web/app.py over the
\* core IoTNetwork) and the PathFinder. current_network is None while last.op
\* is "init".

\* validate_and_fix_network(network) of src/app.py
validate_and_fix_network(ns, o) ==
  IF ~legacy_validate(ns, o)
  THEN [objs |-> legacy_fix(ns, o).objs, msg |-> "Fixed unidirectional connections"]
  ELSE [objs |-> o, msg |-> "All connections are bidirectional"]

\* the body shared by upload_network and load_sample: load the file, (src/app.py
\* only) validate and fix, then prepare the visualisation data and the statistics
LoadHandler(op, data) ==
  /\ IF impl = "legacy"
     THEN LET res == legacy_load_from_file(data)
              v   == validate_and_fix_network(res.nodes, res.objs)
          IN  /\ nodes' = res.nodes
              /\ objs' = v.objs
              /\ gattrs' = gattrs
              /\ gedges' = gedges
              /\ last' = [op |-> op, arg |-> None, ret |-> v.msg]
     ELSE LET res == core_load_from_file(data)
          IN  /\ nodes' = res.nodes
              /\ objs' = res.objs
              /\ gattrs' = res.gattrs
              /\ gedges' = res.gedges
              /\ last' = [op |-> op, arg |-> None,
                          ret |-> "All connections are bidirectional"]
  /\ UNCHANGED impl
  /\ UNCHANGED pfvars
  /\ UNCHANGED random_state

\* POST /upload
UploadNetwork(data) == LoadHandler("upload", data)

\* GET /load_sample
LoadSample(data) == LoadHandler("load_sample", data)

\* GET /api/network_stats: calculate_network_stats(current_network)
GetNetworkStats ==
  /\ last.op # "init"
  /\ last' = [last EXCEPT !.op = "network_stats"]
  /\ UNCHANGED <<impl, nodes, objs, gattrs, gedges>>
  /\ UNCHANGED pfvars
  /\ UNCHANGED random_state

\* PathFinder(network_file).load_network(), in a process of its own
AppLoadNetwork(data) ==
  /\ impl = "core"
  /\ LoadNetwork(data)

\* nothing has been loaded yet, neither by a handler nor by the PathFinder
NothingLoaded == last.op = "init" /\ ~network.loaded

AppNext ==
  \/ NothingLoaded /\ \E data \in Files : UploadNetwork(data)
  \/ NothingLoaded /\ \E data \in Files : LoadSample(data)
  \/ GetNetworkStats
  \/ NothingLoaded /\ \E data \in PathFiles : AppLoadNetwork(data)
  \/ \E s \in QueryIds(network.nodes), d \in QueryIds(network.nodes) : FindPath(s, d)

SpecApp == Init /\ [][AppNext]_vars

----------------------------------------------------------------------------
\* Rebuild and repair on a node whose attributes cannot be evaluated: x holds
\* a value (None, a string) on which the subtraction of distance_to raises
\* TypeError. The exception leaves the call at the statement that raises; no
\* handler and no copy of the earlier state exists in either implementation.

\* the value of x that arithmetic cannot use
Unevaluable == -1

Evaluable(p) == p.x # Unevaluable

\* the pair loop of the legacy update_all_connections; node1.distance_to(node2)
\* raises on an unevaluable attribute
RECURSIVE legacy_try_connect_pairs(_, _, _, _)
legacy_try_connect_pairs(st, ns, i, j) ==
  IF st.raised \/ i > Len(ns) THEN st
  ELSE IF j > Len(ns) THEN legacy_try_connect_pairs(st, ns, i + 1, i + 2)
  ELSE LET a == ns[i]
           b == ns[j]
       IN  IF ~Evaluable(st.objs[a]) \/ ~Evaluable(st.objs[b])
           THEN [st EXCEPT !.raised = TRUE]
           ELSE IF WithinRange(distance_to(st.objs, a, b),
                               Min(st.objs[a].communication_range,
                                   st.objs[b].communication_range))
           THEN legacy_try_connect_pairs(
                  [st EXCEPT !.objs = Connect(@, a, b)], ns, i, j + 1)
           ELSE legacy_try_connect_pairs(st, ns, i, j + 1)

legacy_try_update_all_connections(ns, o, e) ==
  legacy_try_connect_pairs(
    [objs |-> ClearNeighbors(o), gedges |-> e, raised |-> FALSE], ns, 1, 2)

\* the pair loop of the core update_all_connections; the subtraction of the
\* graph attributes raises on an unevaluable attribute
RECURSIVE core_try_connect_pairs(_, _, _, _, _)
core_try_connect_pairs(st, ns, ga, i, j) ==
  IF st.raised \/ i > Len(ns) THEN st
  ELSE IF j > Len(ns) THEN core_try_connect_pairs(st, ns, ga, i + 1, i + 2)
  ELSE LET node1_id == ns[i]
           node2_id == ns[j]
       IN  IF ~Evaluable(ga[node1_id]) \/ ~Evaluable(ga[node2_id])
           THEN [st EXCEPT !.raised = TRUE]
           ELSE IF WithinRange(SqDist(ga[node1_id], ga[node2_id]),
                               Max(ga[node1_id].communication_range,
                                   ga[node2_id].communication_range))
           THEN core_try_connect_pairs(
                  [st EXCEPT !.objs = Connect(@, node1_id, node2_id),
                             !.gedges = add_edge(@, node1_id, node2_id,
                                                 SqDist(ga[node1_id], ga[node2_id]))],
                  ns, ga, i, j + 1)
           ELSE core_try_connect_pairs(st, ns, ga, i, j + 1)

core_try_update_all_connections(ns, o, ga) ==
  core_try_connect_pairs(
    [objs |-> ClearNeighbors(o), gedges |-> EmptyMap, raised |-> FALSE], ns, ga, 1, 2)

\* the loop over list(node.neighbors) of fix_bidirectional_connections;
\* node.can_communicate_with(neighbor) raises on an unevaluable attribute
RECURSIVE try_fix_node(_, _, _, _)
try_fix_node(st, node, copy, k) ==
  IF st.raised \/ k > Len(copy) THEN st
  ELSE LET nb == copy[k]
       IN  IF nb \notin DOMAIN st.objs \/ Contains(st.objs[nb].neighbors, node)
           THEN try_fix_node(st, node, copy, k + 1)
           ELSE IF ~Evaluable(st.objs[node]) \/ ~Evaluable(st.objs[nb])
           THEN [st EXCEPT !.raised = TRUE]
           ELSE IF can_communicate_with(st.objs, node, nb)
           THEN try_fix_node(
                  [st EXCEPT !.objs[nb].neighbors = Append(@, node),
                             !.gedges = IF impl = "core" /\ ~has_edge(@, node, nb)
                                        THEN add_edge(@, node, nb,
                                                      distance_to(st.objs, node, nb))
                                        ELSE @],
                  node, copy, k + 1)
           ELSE try_fix_node(
                  [st EXCEPT !.objs[node].neighbors = RemoveFirst(@, nb),
                             !.gedges = IF impl = "core" /\ has_edge(@, node, nb)
                                        THEN remove_edge(@, node, nb)
                                        ELSE @],
                  node, copy, k + 1)

RECURSIVE try_fix_nodes(_, _, _)
try_fix_nodes(st, ns, i) ==
  IF st.raised \/ i > Len(ns) THEN st
  ELSE try_fix_nodes(try_fix_node(st, ns[i], st.objs[ns[i]].neighbors, 1), ns, i + 1)

\* fix_bidirectional_connections: in core the lists are first made equal to the
\* graph's neighbour sets, which evaluates no attribute
try_fix(ns, o, e, ord) ==
  LET synced == IF impl = "core"
                THEN core_sync_nodes([objs |-> o, gedges |-> e, fixes |-> 0], ns, ord, 1)
                ELSE [objs |-> o, gedges |-> e, fixes |-> 0]
  IN  try_fix_nodes([objs |-> synced.objs, gedges |-> synced.gedges, raised |-> FALSE],
                    ns, 1)

AllEvaluable == \A a \in Range(nodes) : Evaluable(objs[a])

\* node.x = None on a registered node (in core the attribute of the graph too)
AssignUnevaluable(a) ==
  /\ a \in Range(nodes)
  /\ Evaluable(objs[a])
  /\ objs' = [objs EXCEPT ![a].x = Unevaluable]
  /\ gattrs' = IF impl = "core" THEN [gattrs EXCEPT ![a].x = Unevaluable] ELSE gattrs
  /\ last' = [op |-> "assign", arg |-> a, ret |-> None]
  /\ UNCHANGED <<impl, nodes, gedges>>
  /\ UNCHANGED pfvars
  /\ UNCHANGED random_state

\* update_all_connections, with the exception it may end in
TryUpdateAllConnections ==
  /\ LET st == IF impl = "legacy"
               THEN legacy_try_update_all_connections(nodes, objs, gedges)
               ELSE core_try_update_all_connections(nodes, objs, gattrs)
     IN  /\ objs' = st.objs
         /\ gedges' = st.gedges
         /\ answer' = Called("update_all_connections", NoNode, NoNode, Done(st.raised))
  /\ last' = [op |-> "update_all_connections", arg |-> None, ret |-> None]
  /\ UNCHANGED <<impl, nodes, gattrs>>
  /\ UNCHANGED <<network, distance, previous_nodes>>
  /\ UNCHANGED random_state

\* fix_bidirectional_connections, with the exception it may end in
TryFixBidirectionalConnections ==
  /\ \E ord \in Orderings(Ids) :
       LET st == try_fix(nodes, objs, gedges, ord)
       IN  /\ objs' = st.objs
           /\ gedges' = st.gedges
           /\ answer' = Called("fix", NoNode, NoNode, Done(st.raised))
  /\ last' = [op |-> "fix", arg |-> None, ret |-> None]
  /\ UNCHANGED <<impl, nodes, gattrs>>
  /\ UNCHANGED <<network, distance, previous_nodes>>
  /\ UNCHANGED random_state

FailNext ==
  \/ \E id \in Ids, x \in Coords, y \in Coords, r \in Ranges : AddNode(id, x, y, r)
  \/ AllEvaluable /\ \E a \in Range(nodes) : UpdateNeighbors(a)
  \/ \E a \in Ids : AssignUnevaluable(a)
  \/ TryUpdateAllConnections
  \/ TryFixBidirectionalConnections

SpecFail == Init /\ [][FailNext]_vars

----------------------------------------------------------------------------
\* generate_random_network and the module-level generator of `random`. The
\* generator is a state that random.seed sets and every draw advances; a draw
\* is a function of the state it is made in.

\* the number of states of the generator
RandomStates == 16

MaxSeed == 2

\* seed=None
NoSeed == -1

Seeds == 0..MaxSeed

\* random.seed(seed)
random_seed(seed) == seed % RandomStates

\* the state after one draw
advance(rs) == (5 * rs + 3) % RandomStates

\* random.uniform(lo, hi) in the state rs, on the integers lo..hi
uniform(rs, lo, hi) == lo + (rs * (hi - lo + 1)) \div RandomStates

\* random.randint(0, 255) in the state rs
randint_byte(rs) == (rs * 256) \div RandomStates

\* [random.randint(0, 255) for _ in range(8)] from the state rs; the identifier
\* is a function of the eight bytes, and the number of bytes with the leading
\* bit set tells the identities of the model apart
RECURSIVE draw_bytes(_, _, _)
draw_bytes(rs, k, sum) ==
  IF k = 0 THEN [random_state |-> rs, sum |-> sum]
  ELSE draw_bytes(advance(rs), k - 1, sum + (randint_byte(rs) \div 128))

\* IoTNode._generate_eui64()
generate_eui64(rs) ==
  LET drawn == draw_bytes(rs, 8, 0)
  IN  [random_state |-> drawn.random_state,
       eui64 |-> 1 + (drawn.sum % Cardinality(Ids))]

\* a test of the seed by its truth value
seed_is_truthy(seed) == seed # NoSeed /\ seed # 0

\* if seed is not None
seed_is_given(seed) == seed # NoSeed

\* the loop of legacy/generate_network.py: x, y, comm_range, then the node and
\* its generated identifier, then add_node
RECURSIVE legacy_generate_nodes(_, _, _, _)
legacy_generate_nodes(st, k, map_size, max_range) ==
  IF k = 0 THEN st
  ELSE LET x  == uniform(st.random_state, 0, map_size)
           r1 == advance(st.random_state)
           y  == uniform(r1, 0, map_size)
           r2 == advance(r1)
           comm_range == uniform(r2, Max(1, (3 * max_range) \div 10), max_range)
           id == generate_eui64(advance(r2))
           added == legacy_add_node(st.nodes, st.objs, id.eui64, x, y, comm_range)
       IN  legacy_generate_nodes(
             [nodes |-> added.nodes, objs |-> added.objs,
              random_state |-> id.random_state],
             k - 1, map_size, max_range)

\* generate_random_network of legacy/generate_network.py
legacy_generate_random_network(rs, n_nodes, map_size, max_range, seed) ==
  LET start == IF seed_is_given(seed) THEN random_seed(seed) ELSE rs
      made  == legacy_generate_nodes(
                 [nodes |-> <<>>, objs |-> EmptyMap, random_state |-> start],
                 n_nodes, map_size, max_range)
  IN  [nodes |-> made.nodes,
       objs |-> legacy_update_all_connections(made.nodes, made.objs),
       gattrs |-> EmptyMap, gedges |-> EmptyMap,
       random_state |-> made.random_state, ret |-> "network"]

\* generate_random_network of core/generator.py: the first pass of the loop
\* draws x, y and comm_range and then raises AttributeError, core/node.py
\* having no IoTNode.generate_eui64
core_generate_random_network(rs, n_nodes, map_size, max_range, seed) ==
  LET start == IF seed_is_given(seed) THEN random_seed(seed) ELSE rs
  IN  IF n_nodes = 0
      THEN [nodes |-> <<>>, objs |-> EmptyMap, gattrs |-> EmptyMap,
            gedges |-> EmptyMap, random_state |-> start, ret |-> "network"]
      ELSE [nodes |-> <<>>, objs |-> EmptyMap, gattrs |-> EmptyMap,
            gedges |-> EmptyMap,
            random_state |-> advance(advance(advance(start))), ret |-> "raise"]

GenerateRandomNetwork(n_nodes, map_size, max_range, seed) ==
  /\ LET res == IF impl = "legacy"
                THEN legacy_generate_random_network(random_state, n_nodes, map_size,
                                                    max_range, seed)
                ELSE core_generate_random_network(random_state, n_nodes, map_size,
                                                  max_range, seed)
     IN  /\ nodes' = res.nodes
         /\ objs' = res.objs
         /\ gattrs' = res.gattrs
         /\ gedges' = res.gedges
         /\ random_state' = res.random_state
         /\ last' = [op |-> "generate_random_network",
                     arg |-> <<n_nodes, map_size, max_range, seed>>, ret |-> res.ret]
  /\ UNCHANGED impl
  /\ UNCHANGED pfvars

\* any other draw of the process: random.random()
RandomDraw ==
  /\ random_state' = advance(random_state)
  /\ UNCHANGED netvars
  /\ UNCHANGED pfvars

GenInit ==
  /\ NetInit
  /\ PathIdle
  /\ random_state \in 0..(RandomStates - 1)

GenNext ==
  \/ \E n_nodes \in 0..MaxNodes, max_range \in Ranges, seed \in Seeds \cup {NoSeed} :
       GenerateRandomNetwork(n_nodes, MaxCoord, max_range, seed)
  \/ RandomDraw

SpecGen == GenInit /\ [][GenNext]_vars

----------------------------------------------------------------------------
\* Node objects of core/node.py: an IoTNode is a view (graph, eui64) whose x, y
\* and communication_range read and write the node attributes of the graph it
\* was created over. The graph of a view is the network's own graph
\* ("network": IoTNode.create_in_graph(network.graph, ...)) or a graph of the
\* caller ("other"); IoTNetwork.add_node(node) copies the values of the node
\* into the network's graph and registers the object. objs[a] holds what the
\* getters of the registered object return and which graph it views; gattrs
\* holds the attributes in the network's graph.

ViewGraphs == {"network", "other"}

NewView(x, y, r, g) ==
  [x |-> x, y |-> y, communication_range |-> r, neighbors |-> <<>>, graph |-> g]

\* graph.nodes[id][...] = ... on the graph g: the attributes change in g, and
\* with them what the registered view of id over g reads
write_attrs(o, ga, g, id, v) ==
  [objs   |-> IF id \in DOMAIN o /\ o[id].graph = g
              THEN [o EXCEPT ![id].x = v.x, ![id].y = v.y,
                             ![id].communication_range = v.communication_range]
              ELSE o,
   gattrs |-> IF g = "network" THEN SetKey(ga, id, v) ELSE ga]

\* node = IoTNode.create_in_graph(g, x, y, r, id); network.add_node(node)
AddViewNode(id, x, y, r, g) ==
  /\ LET created == write_attrs(objs, gattrs, g, id, Attrs(x, y, r))
     IN  IF id \in DOMAIN objs
         THEN /\ nodes' = nodes
              /\ objs' = created.objs
              /\ gattrs' = created.gattrs
              /\ last' = [op |-> "add_node", arg |-> id, ret |-> FALSE]
         ELSE /\ nodes' = Append(nodes, id)
              /\ objs' = [k \in DOMAIN objs \cup {id} |->
                            IF k = id THEN NewView(x, y, r, g) ELSE objs[k]]
              /\ gattrs' = SetKey(created.gattrs, id, Attrs(x, y, r))
              /\ last' = [op |-> "add_node", arg |-> id, ret |-> TRUE]
  /\ UNCHANGED <<impl, gedges>>
  /\ UNCHANGED pfvars
  /\ UNCHANGED random_state

\* node.x = v, node.y = v or node.communication_range = v on a registered view
SetViewAttribute(a, x, y, r) ==
  /\ a \in DOMAIN objs
  /\ \/ x # objs[a].x /\ y = objs[a].y /\ r = objs[a].communication_range
     \/ x = objs[a].x /\ y # objs[a].y /\ r = objs[a].communication_range
     \/ x = objs[a].x /\ y = objs[a].y /\ r # objs[a].communication_range
  /\ LET written == write_attrs(objs, gattrs, objs[a].graph, a, Attrs(x, y, r))
     IN  /\ objs' = written.objs
         /\ gattrs' = written.gattrs
  /\ last' = [op |-> "set_attribute", arg |-> a, ret |-> None]
  /\ UNCHANGED <<impl, nodes, gedges>>
  /\ UNCHANGED pfvars
  /\ UNCHANGED random_state

\* update_all_connections on a network of views: the edges come from the
\* attributes in the network's graph; node.neighbors of a view is a list built
\* at each read, so clearing it and appending to it change nothing
ViewUpdateAllConnections ==
  /\ gedges' = core_update_all_connections(nodes, objs, gattrs).gedges
  /\ last' = [op |-> "update_all_connections", arg |-> None, ret |-> None]
  /\ UNCHANGED <<impl, nodes, objs, gattrs>>
  /\ UNCHANGED pfvars
  /\ UNCHANGED random_state

AttrNext ==
  \/ \E id \in Ids, x \in Coords, y \in Coords, r \in Ranges, g \in ViewGraphs :
       AddViewNode(id, x, y, r, g)
  \/ \E a \in Ids, x \in Coords, y \in Coords, r \in Ranges : SetViewAttribute(a, x, y, r)
  \/ ViewUpdateAllConnections

SpecAttr == PathInit /\ [][AttrNext]_vars

----------------------------------------------------------------------------
\* The neighbour operations of core/node.py on views over one graph: the
\* neighbours of a node are the ends of its edges in the graph, and
\* add_neighbor, remove_neighbor and update_neighbors add and remove edges.

MaxViewNodes == 3

ViewIds == 1..MaxViewNodes

\* can_communicate_with on the attributes the graph holds
view_can_communicate_with(ga, a, b) ==
  WithinRange(SqDist(ga[a], ga[b]), ga[a].communication_range)

view_add_neighbor(ga, e, a, b) ==
  IF b = a THEN e
  ELSE IF ~view_can_communicate_with(ga, a, b) THEN e
  ELSE IF has_edge(e, a, b) THEN e
  ELSE add_edge(e, a, b, SqDist(ga[a], ga[b]))

view_remove_neighbor(e, a, b) ==
  IF has_edge(e, a, b) THEN remove_edge(e, a, b) ELSE e

\* for node in all_nodes: add the edge to every other node within own range
RECURSIVE view_connect_in_range(_, _, _, _, _)
view_connect_in_range(e, ga, a, all, k) ==
  IF k > Len(all) THEN e
  ELSE IF all[k] # a /\ view_can_communicate_with(ga, a, all[k])
  THEN view_connect_in_range(add_edge(e, a, all[k], SqDist(ga[a], ga[all[k]])),
                             ga, a, all, k + 1)
  ELSE view_connect_in_range(e, ga, a, all, k + 1)

\* an update that keeps the edges the node has
view_update_neighbors_keeping(ga, e, a, all) == view_connect_in_range(e, ga, a, all, 1)

view_update_neighbors(ga, e, a, all) ==
  view_connect_in_range(Restrict(e, {k \in DOMAIN e : a \notin k}), ga, a, all, 1)

ViewAddNeighbor(a, b) ==
  /\ a \in DOMAIN gattrs /\ b \in DOMAIN gattrs
  /\ gedges' = view_add_neighbor(gattrs, gedges, a, b)
  /\ last' = [op |-> "add_neighbor", arg |-> a, ret |-> (gedges' # gedges)]
  /\ UNCHANGED <<impl, nodes, objs, gattrs>>
  /\ UNCHANGED pfvars
  /\ UNCHANGED random_state

ViewRemoveNeighbor(a, b) ==
  /\ a \in DOMAIN gattrs /\ b \in DOMAIN gattrs
  /\ gedges' = view_remove_neighbor(gedges, a, b)
  /\ last' = [op |-> "remove_neighbor", arg |-> a, ret |-> (gedges' # gedges)]
  /\ UNCHANGED <<impl, nodes, objs, gattrs>>
  /\ UNCHANGED pfvars
  /\ UNCHANGED random_state

\* node.update_neighbors(all_nodes) with the views of all the nodes of the graph
ViewUpdateNeighbors(a) ==
  /\ a \in DOMAIN gattrs
  /\ gedges' = view_update_neighbors(gattrs, gedges, a, nodes)
  /\ last' = [op |-> "update_neighbors", arg |-> a, ret |-> None]
  /\ UNCHANGED <<impl, nodes, objs, gattrs>>
  /\ UNCHANGED pfvars
  /\ UNCHANGED random_state

\* the nodes are created one after the other under the identities 1, 2, ...
ViewNext ==
  \/ /\ Len(nodes) < MaxViewNodes
     /\ \E x \in Coords, y \in Coords, r \in Ranges :
          AddViewNode(Len(nodes) + 1, x, y, r, "network")
  \/ \E a \in ViewIds, b \in ViewIds : ViewAddNeighbor(a, b)
  \/ \E a \in ViewIds, b \in ViewIds : ViewRemoveNeighbor(a, b)
  \/ \E a \in ViewIds : ViewUpdateNeighbors(a)

SpecView == PathInit /\ [][ViewNext]_vars

----------------------------------------------------------------------------
\* The legacy network under the operations of its two classes that take part
\* in keeping connections: IoTNetwork.add_node, remove_node and
\* update_all_connections, IoTNode.add_neighbor, remove_neighbor and
\* update_neighbors.

LegacyInit == Init /\ impl = "legacy"

LegacyNext ==
  \/ \E id \in Ids, x \in Coords, y \in Coords, r \in Ranges : AddNode(id, x, y, r)
  \/ \E id \in Ids : RemoveNode(id)
  \/ UpdateAllConnections
  \/ \E a \in Ids, b \in Ids : AddNeighbor(a, b)
  \/ \E a \in Ids, b \in Ids : RemoveNeighbor(a, b)
  \/ \E a \in Ids : UpdateNeighbors(a)

SpecLegacy == LegacyInit /\ [][LegacyNext]_vars

----------------------------------------------------------------------------
\* Properties of the connectivity core

Members == Range(nodes)

\* the combining policy of the implementation applied to two ranges
Combine(ra, rb) == IF impl = "core" THEN Max(ra, rb) ELSE Min(ra, rb)

\* distance(a, b) <= combine(range(a), range(b)), on the squared distance
InPolicyRange(o, a, b) ==
  LET c == Combine(o[a].communication_range, o[b].communication_range)
  IN  (o[a].x - o[b].x) * (o[a].x - o[b].x) + (o[a].y - o[b].y) * (o[a].y - o[b].y) <= c * c

Lists(o, a, b) == \E i \in DOMAIN o[a].neighbors : o[a].neighbors[i] = b

\* a and b are connected: each lists the other and, in core, the graph has the edge
Linked(o, e, a, b) ==
  /\ Lists(o, a, b)
  /\ Lists(o, b, a)
  /\ impl = "core" => {a, b} \in DOMAIN e

\* no trace of a connection between a and b
Unlinked(o, e, a, b) ==
  /\ ~Lists(o, a, b)
  /\ ~Lists(o, b, a)
  /\ {a, b} \notin DOMAIN e

OnlyDefect(a, b) ==
  /\ a \in Members /\ b \in Members /\ a # b
  /\ Lists(objs, a, b) /\ ~Lists(objs, b, a)
  /\ \A n \in Members :
       /\ ~Lists(objs, n, n)
       /\ \A i \in DOMAIN objs[n].neighbors, j \in DOMAIN objs[n].neighbors :
            objs[n].neighbors[i] = objs[n].neighbors[j] => i = j
  /\ \A n \in Members, m \in Members :
       {n, m} # {a, b} /\ n # m =>
         IF InPolicyRange(objs, n, m)
         THEN Linked(objs, gedges, n, m) ELSE Unlinked(objs, gedges, n, m)
  /\ impl = "core" =>
       /\ \A n \in Members : {n} \notin DOMAIN gedges
       /\ {a, b} \in DOMAIN gedges <=> InPolicyRange(objs, a, b)

\* C3: when the only defect is that A lists B and B does not list A,
\* fix_bidirectional_connections returns 1 and leaves A and B connected if they
\* are within range, unconnected if they are out of range.
C3_SingleDefectRepair ==
  [][\A a \in Ids, b \in Ids :
       (OnlyDefect(a, b) /\ last'.op = "fix") =>
         /\ last'.ret = 1
         /\ IF InPolicyRange(objs, a, b)
            THEN Linked(objs', gedges', a, b)
            ELSE Unlinked(objs', gedges', a, b)]_vars

\* a repair has run on a network with that single defect
C3_Witness ==
  /\ last.op = "fix"
  /\ last.ret = 1
  /\ \E a \in Members, b \in Members : a # b /\ Linked(objs, gedges, a, b)

\* every neighbour-list entry and every edge end is a node of the network, and
\* the network keeps an object (in core: and graph attributes) per node only
NoDangling(ns, o, ga, e) ==
  /\ DOMAIN o = Range(ns)
  /\ \A a \in DOMAIN o : Range(o[a].neighbors) \subseteq Range(ns)
  /\ UNION (DOMAIN e) \subseteq Range(ns)
  /\ impl = "core" => DOMAIN ga = Range(ns)

\* the identity id occurs nowhere in the network
Gone(ns, o, ga, e, id) ==
  /\ id \notin Range(ns)
  /\ id \notin DOMAIN o
  /\ id \notin DOMAIN ga
  /\ \A a \in DOMAIN o : id \notin Range(o[a].neighbors)
  /\ \A k \in DOMAIN e : id \notin k

\* C4: no neighbour-list entry and no edge ever refers to an identity that is
\* not a node; remove_node(id) of a present id returns True and leaves no
\* trace of id in the same step; remove_node(id) of an absent id returns False
\* and changes nothing.
C4_NoDanglingReference ==
  [][/\ NoDangling(nodes', objs', gattrs', gedges')
     /\ last'.op = "remove_node" =>
          IF last'.arg \in Range(nodes)
          THEN /\ last'.ret = TRUE
               /\ Gone(nodes', objs', gattrs', gedges', last'.arg)
               /\ Range(nodes') = Range(nodes) \ {last'.arg}
          ELSE /\ last'.ret = FALSE
               /\ UNCHANGED <<nodes, objs, gattrs, gedges>>]_vars

\* remove_node has removed one of two nodes of the network
C4_Witness ==
  /\ last.op = "remove_node"
  /\ last.ret = TRUE
  /\ Len(nodes) = MaxNodes - 1
  /\ Gone(nodes, objs, gattrs, gedges, last.arg)

\* remove_node has been called with an identity the network does not have
C4_WitnessAbsent ==
  /\ last.op = "remove_node"
  /\ last.ret = FALSE
  /\ nodes # <<>>

Registered(o, ga, k) ==
  [obj   |-> <<o[k].x, o[k].y, o[k].communication_range>>,
   graph |-> IF impl = "core"
             THEN <<ga[k].x, ga[k].y, ga[k].communication_range>> ELSE <<>>]

\* the attributes of the first record of the file that has identity k
FirstRecord(data, k) ==
  LET i == CHOOSE i \in DOMAIN data :
             data[i].eui64 = k /\ \A j \in 1..(i - 1) : data[j].eui64 # k
  IN  <<data[i].x, data[i].y, data[i].communication_range>>

C6_WitnessLoad ==
  /\ last.op = "load_from_file"
  /\ Len(last.arg) = 2
  /\ last.arg[1].eui64 = last.arg[2].eui64
  /\ last.arg[1].x # last.arg[2].x
  /\ Registered(objs, gattrs, last.arg[1].eui64).obj = FirstRecord(last.arg, last.arg[1].eui64)

----------------------------------------------------------------------------
\* Properties of the path engine

\* a persisted network: one record per identity, every reference a record
IsNetworkFile(data) ==
  /\ \A i \in DOMAIN data, j \in DOMAIN data : data[i].eui64 = data[j].eui64 => i = j
  /\ \A i \in DOMAIN data :
       \A k \in DOMAIN data[i].neighbors :
         \E j \in DOMAIN data : data[j].eui64 = data[i].neighbors[k]

\* the identities some record of a lists as neighbours
ListedBy(data, a) ==
  UNION {{data[i].neighbors[k] : k \in DOMAIN data[i].neighbors} :
           i \in {j \in DOMAIN data : data[j].eui64 = a}}

\* the identities at most n edges away from s
RECURSIVE WithinHops(_, _, _)
WithinHops(data, s, n) ==
  IF n = 0 THEN {s}
  ELSE LET near == WithinHops(data, s, n - 1)
       IN  near \cup UNION {ListedBy(data, a) : a \in near}

ReachableFrom(data, s, d) == d \in WithinHops(data, s, Len(data))

\* the minimum number of edges of a path from s to d
MinHops(data, s, d) ==
  CHOOSE n \in 0..Len(data) :
    /\ d \in WithinHops(data, s, n)
    /\ \A m \in 0..(n - 1) : d \notin WithinHops(data, s, m)

Recorded(data) == {data[i].eui64 : i \in DOMAIN data}

\* C7: on a persisted network, for source # destination with the destination
\* reachable, find_path returns a path and a hop count equal to the minimum
\* number of edges from source to destination; on the path graph A-B, B-C, C-D
\* find_path(A, D) returns ([A, B, C, D], 3).
C7_HopCountIsMinimum ==
  (/\ answer.op = "find_path"
   /\ IsNetworkFile(network.nodes)
   /\ answer.source \in Recorded(network.nodes)
   /\ answer.destination \in Recorded(network.nodes)
   /\ answer.source # answer.destination
   /\ ReachableFrom(network.nodes, answer.source, answer.destination))
  => /\ answer.kind = "path"
     /\ answer.hops = MinHops(network.nodes, answer.source, answer.destination)
     /\ (network.nodes = PathGraphFile /\ answer.source = 11 /\ answer.destination = 14)
          => answer.path = <<11, 12, 13, 14>> /\ answer.hops = 3

\* find_path(A, D) has answered on the path graph
C7_Witness ==
  /\ answer.op = "find_path"
  /\ network.nodes = PathGraphFile
  /\ answer.source = 11
  /\ answer.destination = 14
  /\ answer.kind = "path"
  /\ answer.path = <<11, 12, 13, 14>>
  /\ answer.hops = 3

\* C8: for every loaded file, whatever its neighbour lists contain, and every
\* source and destination that are both nodes of it, find_path returns
\* (None, infinity) and does not raise when the destination is not reachable.
C8_UnreachableIsNoPath ==
  (/\ answer.op = "find_path"
   /\ answer.source \in Recorded(network.nodes)
   /\ answer.destination \in Recorded(network.nodes)
   /\ ~ReachableFrom(network.nodes, answer.source, answer.destination))
  => answer.kind = "none" /\ answer.hops = Infinity

\* find_path has answered (None, infinity) for two nodes of different components
C8_Witness ==
  /\ answer.op = "find_path"
  /\ network.nodes = TwoComponentsFile
  /\ answer.source = 11
  /\ answer.destination = 14
  /\ answer.kind = "none"

\* C9: find_path with a source or a destination that is not a node of the
\* network, or with source = destination, is rejected: it returns neither a
\* path nor the no-path result.
C9_InvalidQueryRejected ==
  (/\ answer.op = "find_path"
   /\ \/ answer.source \notin Recorded(network.nodes)
      \/ answer.destination \notin Recorded(network.nodes)
      \/ answer.source = answer.destination)
  => answer.kind \notin {"path", "none"}

\* find_path has raised on a query whose destination is no node
C9_Witness ==
  /\ answer.op = "find_path"
  /\ answer.source \in Recorded(network.nodes)
  /\ answer.destination \notin Recorded(network.nodes)
  /\ answer.kind = "raise"

\* C10: after calculate_paths on initialised structures, for every ordered pair (s, d) of nodes the
\* recorded distance and predecessor of d are the distance find_path(s, d)
\* returns and the node before d on the path it returns.
C10_AllPairsMatchesFindPath ==
  (/\ answer.op = "calculate_paths"
   /\ answer.kind = "done"
   /\ Recorded(network.nodes) \subseteq DOMAIN previous_nodes) =>
    \A s \in Recorded(network.nodes), d \in Recorded(network.nodes) :
      LET res == find_path(network.nodes, distance, previous_nodes, s, d).result
      IN  /\ distance[d] = res.hops
          /\ res.kind = "path" =>
               previous_nodes[d] =
                 IF Len(res.path) >= 2 THEN res.path[Len(res.path) - 1] ELSE NoNode

\* calculate_paths has completed on a network of two connected nodes
C10_Witness ==
  /\ answer.op = "calculate_paths"
  /\ answer.kind = "done"
  /\ \E s \in Recorded(network.nodes), d \in Recorded(network.nodes) :
       s # d /\ d \in ListedBy(network.nodes, s)

\* the smallest identity among the nodes that list v and are one hop closer to s
SmallestCloserNeighbour(data, s, v) ==
  LET closer == {n \in Recorded(data) :
                   /\ v \in ListedBy(data, n)
                   /\ ReachableFrom(data, s, n)
                   /\ MinHops(data, s, n) = MinHops(data, s, v) - 1}
  IN  CHOOSE n \in closer : \A m \in closer : n <= m

\* C11: on a persisted network, the path find_path returns is fixed by the
\* edge set and the identities alone: it starts at the source, ends at the
\* destination, and each node on it is preceded by the smallest identity among
\* the nodes that list it and are one hop closer to the source, whatever the
\* earlier calls and whatever the order of the records and of the entries.
C11_TieBreakBySmallestIdentity ==
  (/\ answer.op = "find_path"
   /\ answer.kind = "path"
   /\ IsNetworkFile(network.nodes)
   /\ answer.source \in Recorded(network.nodes)
   /\ answer.source # answer.destination)
  => /\ answer.path[1] = answer.source
     /\ answer.path[Len(answer.path)] = answer.destination
     /\ \A i \in 1..(Len(answer.path) - 1) :
          answer.path[i] =
            SmallestCloserNeighbour(network.nodes, answer.source, answer.path[i + 1])

\* find_path(A, D) has answered on the diamond written in descending order,
\* where B and C are both one hop from A and both list D
C11_Witness ==
  /\ answer.op = "find_path"
  /\ network.nodes = DiamondFile
  /\ answer.source = 11
  /\ answer.destination = 14
  /\ answer.path = <<11, 12, 14>>

\* the same query has the same answer on the diamond in ascending order
C11_WitnessAscending ==
  /\ answer.op = "find_path"
  /\ network.nodes = DiamondFileAscending
  /\ answer.source = 11
  /\ answer.destination = 14
  /\ answer.path = <<11, 12, 14>>

\* the nodes of a file reachable from s along the listed neighbours
ReachableSet(data, s) == {n \in Recorded(data) \cup {s} : ReachableFrom(data, s, n)}

\* C12: after calculate_paths_from_source(source) on a persisted network, the
\* keys of the distance mapping are exactly the nodes reachable from the source,
\* each with its minimum hop count (the source with 0); a node that cannot be
\* reached is no key of the mapping.
C12_DistanceKeysAreReachable ==
  (/\ answer.op = "calculate_paths_from_source"
   /\ answer.kind = "done"
   /\ IsNetworkFile(network.nodes)
   /\ answer.source \in Recorded(network.nodes))
  => /\ DOMAIN distance = ReachableSet(network.nodes, answer.source)
     /\ \A n \in ReachableSet(network.nodes, answer.source) :
          distance[n] = MinHops(network.nodes, answer.source, n)

\* the reachable nodes carry their minimum hop count after
\* calculate_paths_from_source
C12_ReachableHaveMinHops ==
  (/\ answer.op = "calculate_paths_from_source"
   /\ answer.kind = "done"
   /\ IsNetworkFile(network.nodes)
   /\ answer.source \in Recorded(network.nodes))
  => \A n \in ReachableSet(network.nodes, answer.source) :
       n \in DOMAIN distance /\ distance[n] = MinHops(network.nodes, answer.source, n)

\* calculate_paths_from_source has completed on the two-component network from
\* a node of the first component, and a node of the second component is a key
\* of the mapping with the value infinity
C12_Witness ==
  /\ answer.op = "calculate_paths_from_source"
  /\ answer.kind = "done"
  /\ network.nodes = TwoComponentsFile
  /\ answer.source = 11
  /\ 13 \in DOMAIN distance
  /\ distance[13] = Infinity
  /\ distance[12] = 1

\* the connections of a network: the edges of the graph in core, the pairs one
\* of which lists the other in legacy
EdgeSet(o, e) ==
  IF impl = "core" THEN DOMAIN e
  ELSE {{p[1], p[2]} : p \in {q \in (DOMAIN o) \X (DOMAIN o) : Lists(o, q[1], q[2])}}

\* validate_bidirectional_connections on a network given by its parts
Valid(net) ==
  IF impl = "legacy" THEN legacy_validate(net.nodes, net.objs)
  ELSE core_validate(net.nodes, net.objs, net.gedges)

\* the edge sets fix_bidirectional_connections can leave on a network
RepairedEdgeSets(net) ==
  IF impl = "legacy"
  THEN {EdgeSet(legacy_fix(net.nodes, net.objs).objs, net.gedges)}
  ELSE {LET res == core_fix(net.nodes, net.objs, net.gedges, ord)
        IN  EdgeSet(res.objs, res.gedges) : ord \in Orderings(Ids)}

Reloaded == load_saved(impl, nodes, objs)

\* the loaded network has the identities and the attributes of the saved one
SameNodes(net) ==
  /\ Range(net.nodes) = Members
  /\ \A a \in Members :
       /\ net.objs[a].x = objs[a].x
       /\ net.objs[a].y = objs[a].y
       /\ net.objs[a].communication_range = objs[a].communication_range

\* C13: for every network on which validate is true, loading what was saved
\* gives the same identities with the same x, y and communication_range, a
\* network on which validate is true, and, after the repair pass, the edge set
\* of the original.
C13_SaveLoadRoundTrip ==
  validate_bidirectional_connections =>
    /\ SameNodes(Reloaded)
    /\ Valid(Reloaded)
    /\ RepairedEdgeSets(Reloaded) = {EdgeSet(objs, gedges)}

\* the node part of the round trip alone
C13_NodesRoundTrip == validate_bidirectional_connections => SameNodes(Reloaded)

\* the round trip of a network whose connections are those of the rebuild
C13_RebuiltRoundTrip ==
  last.op = "update_all_connections" =>
    /\ SameNodes(Reloaded)
    /\ Valid(Reloaded)
    /\ RepairedEdgeSets(Reloaded) = {EdgeSet(objs, gedges)}

\* a valid network with a connection whose save and load give back its nodes
\* and its edge set
C13_Witness ==
  /\ validate_bidirectional_connections
  /\ EdgeSet(objs, gedges) # {}
  /\ SameNodes(Reloaded)
  /\ Valid(Reloaded)
  /\ RepairedEdgeSets(Reloaded) = {EdgeSet(objs, gedges)}

\* a valid network built by update_all_connections whose reloaded copy is not
\* valid
C13_WitnessInvalidAfterLoad ==
  /\ last.op = "update_all_connections"
  /\ validate_bidirectional_connections
  /\ ~Valid(Reloaded)

\* validate on the raw neighbour lists of a file: every reference names a record
\* that lists the referring node back
FileValid(data) ==
  \A i \in DOMAIN data :
    \A k \in DOMAIN data[i].neighbors :
      \E j \in DOMAIN data :
        /\ data[j].eui64 = data[i].neighbors[k]
        /\ Contains(data[j].neighbors, data[i].eui64)

LoadedByHandler == last.op \in {"upload", "load_sample", "network_stats"}

\* C14: a network loaded from a file is valid whenever it is used: after the
\* upload and load_sample handlers have prepared the visualisation data and the
\* statistics, at every later statistics request, and at every answer the
\* PathFinder gives from a loaded file.
C14_ValidBeforeUse ==
  /\ LoadedByHandler => validate_bidirectional_connections
  /\ (answer.op = "find_path" /\ answer.kind \in {"path", "none"})
       => FileValid(network.nodes)

\* the handlers of src/app.py, which call validate_and_fix_network after the load
C14_LegacyHandlersValid ==
  (impl = "legacy" /\ LoadedByHandler) => validate_bidirectional_connections

\* src/app.py has loaded a file, has run validate_and_fix_network and serves
\* the statistics of a valid network with a connection
C14_Witness ==
  /\ impl = "legacy"
  /\ last.op = "network_stats"
  /\ validate_bidirectional_connections
  /\ \E a \in Members, b \in Members : a # b /\ Lists(objs, a, b)

\* a handler of web/app.py serves the statistics of a network on which validate
\* is false, having reported that all connections are bidirectional
C14_WitnessCoreInvalid ==
  /\ impl = "core"
  /\ last.op = "network_stats"
  /\ last.ret = "All connections are bidirectional"
  /\ ~validate_bidirectional_connections

\* the PathFinder has answered with a path from a file in which the destination
\* does not list the node before it
C14_WitnessPathFinder ==
  /\ answer.op = "find_path"
  /\ answer.kind = "path"
  /\ ~FileValid(network.nodes)

\* the records of a file that do not repeat the identity of an earlier record
RECURSIVE FirstRecords(_, _)
FirstRecords(data, k) ==
  IF k = 0 THEN <<>>
  ELSE IF \E j \in 1..(k - 1) : data[j].eui64 = data[k].eui64
  THEN FirstRecords(data, k - 1)
  ELSE Append(FirstRecords(data, k - 1), data[k])

\* some record of the file with identity a lists b
FileLists(data, a, b) ==
  \E i \in DOMAIN data : data[i].eui64 = a /\ Contains(data[i].neighbors, b)

\* the network holds nothing between a and b that no record in data asks for
OnlyListed(data) ==
  \A a \in Members, b \in Members :
    (Lists(objs, a, b) \/ {a, b} \in DOMAIN gedges)
      => (FileLists(data, a, b) \/ FileLists(data, b, a))

\* C15: load_from_file creates exactly one node per distinct identity of the
\* file, with the attributes of its first record; a record that repeats an
\* identity adds no node and changes no connection (the result is the one of
\* the file without the repeating records); every connection comes from a
\* reference between two identities of the file, and a reference to an
\* identity the file does not have creates no node.
C15_LoadOneNodePerIdentity ==
  last.op = "load_from_file" =>
    LET clean == FirstRecords(last.arg, Len(last.arg))
        kept  == load_from_file(impl, clean)
    IN  /\ Members = FileIds(last.arg)
        /\ Len(nodes) = Cardinality(FileIds(last.arg))
        /\ \A k \in Members :
             Registered(objs, gattrs, k).obj = FirstRecord(last.arg, k)
        /\ OnlyListed(clean)
        /\ nodes = kept.nodes
        /\ objs = kept.objs
        /\ gedges = kept.gedges

\* the claim without the part on the connections of a repeated identity
C15_NodesAndReferences ==
  last.op = "load_from_file" =>
    /\ Members = FileIds(last.arg)
    /\ Len(nodes) = Cardinality(FileIds(last.arg))
    /\ \A k \in Members :
         Registered(objs, gattrs, k).obj = FirstRecord(last.arg, k)
    /\ OnlyListed(last.arg)

\* a file of two records of one identity whose first record names an identity
\* the file does not have was loaded: one node, no connection
C15_Witness ==
  /\ last.op = "load_from_file"
  /\ Len(last.arg) = 2
  /\ last.arg[1].eui64 = 1
  /\ last.arg[2].eui64 = 1
  /\ last.arg[1].neighbors = <<2>>
  /\ last.arg[1].x # last.arg[2].x
  /\ nodes = <<1>>
  /\ objs[1].neighbors = <<>>

\* the file with the repeating record was loaded and the first node is
\* connected to the node only the repeating record lists
C15_WitnessRepeatConnects ==
  /\ last.op = "load_from_file"
  /\ last.arg = DuplicateRecordFile
  /\ Lists(objs, 1, 2)

\* the step is a rebuild or a repair that ended in an exception
FailedStep ==
  /\ last'.op \in {"update_all_connections", "fix"}
  /\ answer'.op = last'.op
  /\ answer'.kind = "raise"

\* C16: a step of update_all_connections or fix_bidirectional_connections that
\* ends in an exception leaves the neighbour lists and the edge set exactly as
\* they were before the call.
C16_FailureLeavesConnections ==
  [][FailedStep => (objs' = objs /\ gedges' = gedges)]_vars

\* update_all_connections has ended in an exception on a network of two nodes
\* and no node lists a neighbour
C16_Witness ==
  /\ last.op = "update_all_connections"
  /\ answer.op = "update_all_connections"
  /\ answer.kind = "raise"
  /\ Len(nodes) = 2
  /\ \A a \in Members : objs[a].neighbors = <<>>

\* fix_bidirectional_connections has ended in an exception
C16_WitnessFix ==
  /\ last.op = "fix"
  /\ answer.op = "fix"
  /\ answer.kind = "raise"

\* some node lists a neighbour that does not list it back
OneSided == \E a \in Members, b \in Members : Lists(objs, a, b) /\ ~Lists(objs, b, a)

\* in core, the list of every node holds exactly its neighbours in the graph
ListsMatchGraph ==
  impl = "core" =>
    \A a \in Members : graph_neighbors(gedges, a) = {b \in Members : Lists(objs, a, b)}

\* C17 as stated: validate_bidirectional_connections is true exactly in the
\* states without a one-sided connection (the graph keeps one weight per
\* undirected edge, so the two directions of an edge cannot disagree on it).
C17_ValidateIffSymmetric == validate_bidirectional_connections <=> ~OneSided

\* C17 amended: validate_bidirectional_connections is true exactly in the states
\* in which no node lists a neighbour that does not list it back and, in core,
\* the list of every node holds exactly its neighbours in the graph.
C17_ValidateIffSymmetricAndConsistent ==
  validate_bidirectional_connections <=> (~OneSided /\ ListsMatchGraph)

\* a state with a one-sided connection, on which validate is false
C17_Witness ==
  /\ OneSided
  /\ ~validate_bidirectional_connections

\* a state with a connection and no one-sided one, on which validate is true
C17_WitnessValid ==
  /\ \E a \in Members, b \in Members : a # b /\ Lists(objs, a, b)
  /\ ~OneSided
  /\ validate_bidirectional_connections

\* a state of core without a one-sided connection on which validate is false
C17_WitnessInconsistent ==
  /\ impl = "core"
  /\ ~OneSided
  /\ ~validate_bidirectional_connections

\* the connections of a network: the connected pairs, the weights of the
\* graph's edges and, per node, the set of the neighbours it lists
Connections(ns, o, e) ==
  [pairs   |-> EdgeSet(o, e),
   weights |-> e,
   listed  |-> [a \in Range(ns) |-> Range(o[a].neighbors)]]

\* the node objects with no neighbour listed
Unconnected(o) == [k \in DOMAIN o |-> [o[k] EXCEPT !.neighbors = <<>>]]

\* update_all_connections on the nodes ns in the implementation of the state
Rebuilt(ns, o, ga, e) ==
  IF impl = "legacy"
  THEN Connections(ns, legacy_update_all_connections(ns, o), e)
  ELSE LET res == core_update_all_connections(ns, o, ga)
       IN  Connections(ns, res.objs, res.gedges)

\* C18: the connections update_all_connections leaves are those it computes
\* from the same node attributes on a network without any connection, with the
\* nodes added in any order, and those a second call in a row computes.
C18_RebuildDependsOnAttributesOnly ==
  last.op = "update_all_connections" =>
    /\ \A ord \in Orderings(Members) :
         Rebuilt(ord, Unconnected(objs), gattrs, EmptyMap)
           = Connections(nodes, objs, gedges)
    /\ Rebuilt(nodes, objs, gattrs, gedges) = Connections(nodes, objs, gedges)

\* update_all_connections has connected two nodes that were added in
\* descending order of identity
C18_Witness ==
  /\ last.op = "update_all_connections"
  /\ nodes = <<2, 1>>
  /\ EdgeSet(objs, gedges) = {{1, 2}}

\* the pairs of distinct nodes within the range the policy p makes of their two
\* ranges
PolicyEdges(p) ==
  {{q[1], q[2]} : q \in
     {t \in Members \X Members :
        /\ t[1] # t[2]
        /\ LET ra == objs[t[1]].communication_range
               rb == objs[t[2]].communication_range
           IN  WithinRange(SqDist(objs[t[1]], objs[t[2]]),
                           IF p = "max" THEN Max(ra, rb) ELSE Min(ra, rb))}}

\* the edge sets a call of update_all_connections can be asked to produce in
\* this state: the method has no parameter, so there is one
RebuildChoices == {Rebuilt(nodes, objs, gattrs, gedges).pairs}

\* C19: the rebuild of each implementation uses the max policy when none is
\* given, and can be asked for the edge set of the min policy as well as for
\* the one of the max policy.
C19_PolicyIsParameter ==
  last.op = "update_all_connections" =>
    /\ EdgeSet(objs, gedges) = PolicyEdges("max")
    /\ \A p \in {"min", "max"} : PolicyEdges(p) \in RebuildChoices

\* what holds instead: max in core, min in legacy, and nothing else
C19_PolicyIsFixed ==
  last.op = "update_all_connections" =>
    /\ EdgeSet(objs, gedges) = PolicyEdges(IF impl = "core" THEN "max" ELSE "min")
    /\ RebuildChoices = {EdgeSet(objs, gedges)}

\* a rebuild of two nodes that the max policy connects and the min policy
\* does not
C19_Witness ==
  /\ last.op = "update_all_connections"
  /\ PolicyEdges("max") = {{1, 2}}
  /\ PolicyEdges("min") = {}

\* the legacy rebuild has left such nodes unconnected
C19_WitnessLegacyMin ==
  /\ impl = "legacy"
  /\ last.op = "update_all_connections"
  /\ PolicyEdges("max") = {{1, 2}}
  /\ EdgeSet(objs, gedges) = {}

\* what a call of generate_random_network gave: the nodes with their positions,
\* ranges and neighbours, the edges, and whether it returned
Generated == <<nodes, objs, gattrs, gedges, last.ret>>

\* C20: a call of generate_random_network with the node count, the map, the
\* range and the seed (0 included) of the call before it gives what that call
\* gave: the same identities, positions, ranges and edges, whatever was drawn
\* in between.
C20_SeededGenerationRepeats ==
  [][(/\ last.op = "generate_random_network"
      /\ last'.op = "generate_random_network"
      /\ last'.arg = last.arg
      /\ last'.arg[4] # NoSeed) => Generated' = Generated]_vars

\* generate_random_network with seed 0 has returned a network of two nodes in
\* a state of the generator that is not the one the seed sets
C20_Witness ==
  /\ last.op = "generate_random_network"
  /\ last.ret = "network"
  /\ last.arg[4] = 0
  /\ Len(nodes) = 2
  /\ random_state # random_seed(0)

\* two calls without a seed and with the same arguments that differ
C20_UnseededRepeats ==
  [][(/\ last.op = "generate_random_network"
      /\ last'.op = "generate_random_network"
      /\ last'.arg = last.arg
      /\ last'.arg[4] = NoSeed) => Generated' = Generated]_vars

\* the attributes of every node lie within the map and the range interval
\* [0.3 * max_range, max_range] of the call
GeneratedWithinBounds(map_size, max_range) ==
  \A a \in Members :
    /\ objs[a].x \in 0..map_size
    /\ objs[a].y \in 0..map_size
    /\ 10 * objs[a].communication_range >= 3 * max_range
    /\ objs[a].communication_range <= max_range

\* the connections are the ones of a rebuild on the attributes of the nodes
GeneratedEdgesAreRebuilt ==
  \A a \in Members, b \in Members :
    a # b =>
      IF InPolicyRange(objs, a, b)
      THEN Linked(objs, gedges, a, b)
      ELSE Unlinked(objs, gedges, a, b)

\* C21: generate_random_network(n, map_width, map_height, max_range) returns a
\* network of exactly n nodes, each with x and y within the map and a
\* communication_range in [0.3 * max_range, max_range], whose connections are
\* the ones a rebuild derives from those attributes.
C21_GeneratedNetworkShape ==
  last.op = "generate_random_network" =>
    /\ last.ret = "network"
    /\ Len(nodes) = last.arg[1]
    /\ GeneratedWithinBounds(last.arg[2], last.arg[3])
    /\ GeneratedEdgesAreRebuilt

\* the generator of legacy/generate_network.py alone
C21_LegacyGeneratedShape ==
  (impl = "legacy" /\ last.op = "generate_random_network") =>
    /\ last.ret = "network"
    /\ Len(nodes) = last.arg[1]
    /\ GeneratedWithinBounds(last.arg[2], last.arg[3])
    /\ GeneratedEdgesAreRebuilt

\* the generator of core/generator.py was asked for one node or more and raised
C21_Witness ==
  /\ impl = "core"
  /\ last.op = "generate_random_network"
  /\ last.arg[1] >= 1
  /\ last.ret = "raise"
  /\ nodes = <<>>

\* the legacy generator has returned two connected nodes
C21_WitnessLegacy ==
  /\ impl = "legacy"
  /\ last.op = "generate_random_network"
  /\ last.arg[1] = 2
  /\ Len(nodes) = 2
  /\ EdgeSet(objs, gedges) = {{1, 2}}

\* the ordered pairs of distinct nodes of a file with the second reachable from
\* the first
ReachablePairs(data) ==
  {p \in Recorded(data) \X Recorded(data) :
     p[1] # p[2] /\ ReachableFrom(data, p[1], p[2])}

\* the entry rec is the one of the pair p: source, destination, hop distance and
\* the predecessor of the destination, null when the destination is one hop away
EntryOfPair(data, rec, p) ==
  /\ {"source", "destination", "distance", "previous"} \subseteq DOMAIN rec
  /\ rec.source = p[1]
  /\ rec.destination = p[2]
  /\ rec.distance = MinHops(data, p[1], p[2])
  /\ IF MinHops(data, p[1], p[2]) = 1 THEN rec.previous = NoNode
     ELSE /\ rec.previous \in Recorded(data)
          /\ p[2] \in ListedBy(data, rec.previous)
          /\ ReachableFrom(data, p[1], rec.previous)
          /\ MinHops(data, p[1], rec.previous) = MinHops(data, p[1], p[2]) - 1

\* C22: save_paths writes one entry for every ordered pair (source,
\* destination) of distinct nodes with the destination reachable from the
\* source, and no other entry; each entry carries source, destination, the hop
\* distance and previous, the predecessor of the destination on the shortest
\* path from the source, null when the destination is one hop from the source.
C22_SavePathsOneEntryPerPair ==
  (/\ answer.op = "save_paths"
   /\ answer.kind = "done"
   /\ IsNetworkFile(network.nodes))
  => /\ Len(answer.path) = Cardinality(ReachablePairs(network.nodes))
     /\ \A p \in ReachablePairs(network.nodes) :
          \E i \in DOMAIN answer.path : EntryOfPair(network.nodes, answer.path[i], p)
     /\ \A i \in DOMAIN answer.path :
          \E p \in ReachablePairs(network.nodes) :
            EntryOfPair(network.nodes, answer.path[i], p)

\* what save_paths writes: one entry per record of the file, in the order of
\* the file, with the identity of the record and the values the two dicts hold
\* for it
C22_SavePathsOneEntryPerNode ==
  (answer.op = "save_paths" /\ answer.kind = "done") =>
    /\ Len(answer.path) = Len(network.nodes)
    /\ \A i \in DOMAIN answer.path :
         /\ DOMAIN answer.path[i] = {"eui64", "distance", "previous"}
         /\ answer.path[i].eui64 = network.nodes[i].eui64
         /\ answer.path[i].distance = distance[network.nodes[i].eui64]
         /\ answer.path[i].previous = previous_nodes[network.nodes[i].eui64]

\* save_paths has written the entries of the path graph A-B, B-C, C-D, which
\* has twelve ordered pairs of distinct reachable nodes: four entries
C22_Witness ==
  /\ answer.op = "save_paths"
  /\ answer.kind = "done"
  /\ network.nodes = PathGraphFile
  /\ Cardinality(ReachablePairs(network.nodes)) = 12
  /\ Len(answer.path) = 4
  /\ distance[11] = 0

\* save_paths has raised: a record of the file is no key of the dicts
C22_WitnessRaise ==
  /\ answer.op = "save_paths"
  /\ answer.kind = "raise"

\* a lists b and b does not list a
OneSidedPair(o, a, b) == a # b /\ Lists(o, a, b) /\ ~Lists(o, b, a)

\* C23: for every one-sided connection a -> b, fix_bidirectional_connections
\* decides with the predicate of update_all_connections on the current
\* attributes (distance(a, b) <= combine(range(a), range(b))): it adds the
\* reciprocal when a rebuild would connect a and b and removes the entry
\* otherwise, so that the repair leaves no connection between them that a
\* rebuild right after it would not contain.
C23_RepairUsesRebuildPredicate ==
  [][last'.op = "fix" =>
       \A a \in Members, b \in Members :
         OneSidedPair(objs, a, b) =>
           IF InPolicyRange(objs, a, b)
           THEN Linked(objs', gedges', a, b)
           ELSE Unlinked(objs', gedges', a, b)]_vars

\* what the legacy repair decides with: the range of the listing node alone
C23_LegacyRepairUsesOwnRange ==
  [][(impl = "legacy" /\ last'.op = "fix") =>
       \A a \in Members, b \in Members :
         OneSidedPair(objs, a, b) =>
           IF can_communicate_with(objs, a, b)
           THEN Lists(objs', a, b) /\ Lists(objs', b, a)
           ELSE ~Lists(objs', a, b) /\ ~Lists(objs', b, a)]_vars

\* a legacy repair has left two nodes connected that are within the range of
\* one of them and beyond the range of the other: a rebuild separates them
C23_Witness ==
  /\ impl = "legacy"
  /\ last.op = "fix"
  /\ last.ret = 1
  /\ \E a \in Members, b \in Members :
       /\ Linked(objs, gedges, a, b)
       /\ ~InPolicyRange(objs, a, b)
       /\ can_communicate_with(objs, a, b)

\* a core repair has dropped what two nodes within range listed of each other
C23_WitnessCore ==
  /\ impl = "core"
  /\ last.op = "fix"
  /\ last.ret >= 1
  /\ \E a \in Members, b \in Members :
       a # b /\ InPolicyRange(objs, a, b) /\ Unlinked(objs, gedges, a, b)

\* the attributes the getters of the node object of a return
ObjectAttrs(a) == Attrs(objs[a].x, objs[a].y, objs[a].communication_range)

\* C24: in core/network.py the attributes the graph holds for a node are the
\* attributes of its node object in every reachable state, also after x, y or
\* communication_range was assigned through the node object; the edges
\* update_all_connections derives from the graph are therefore the ones the
\* attributes of the node objects give.
C24_GraphAttributesEqualObjectAttributes ==
  /\ \A a \in Members : gattrs[a] = ObjectAttrs(a)
  /\ last.op = "update_all_connections" => DOMAIN gedges = PolicyEdges("max")

\* the same for a network all of whose node objects are views over the
\* network's own graph
C24_OwnGraphViewsAgree ==
  (\A a \in Members : objs[a].graph = "network") =>
    /\ \A a \in Members : gattrs[a] = ObjectAttrs(a)
    /\ last.op = "update_all_connections" => DOMAIN gedges = PolicyEdges("max")

\* an attribute was assigned through a registered node object and the graph of
\* the network still holds the value of add_node
C24_Witness ==
  /\ last.op = "set_attribute"
  /\ last.arg \in Members
  /\ gattrs[last.arg] # ObjectAttrs(last.arg)

\* an attribute was assigned through a view over the network's own graph
C24_WitnessOwnGraph ==
  /\ last.op = "set_attribute"
  /\ objs[last.arg].graph = "network"
  /\ gattrs[last.arg] = ObjectAttrs(last.arg)

\* a rebuild has left unconnected two nodes whose objects are within range
C24_WitnessStaleRebuild ==
  /\ last.op = "update_all_connections"
  /\ DOMAIN gedges = {}
  /\ PolicyEdges("max") = {{1, 2}}

\* the number of entries of the list s that are e
Count(s, e) == Cardinality({i \in DOMAIN s : s[i] = e})

\* the entries of b that the list of a gained or lost between o and o2
EntryChange(o, o2, p) ==
  LET before == Count(o[p[1]].neighbors, p[2])
      after  == Count(o2[p[1]].neighbors, p[2])
  IN  IF after >= before THEN after - before ELSE before - after

\* the neighbour-list entries added plus the ones removed between o and o2
RECURSIVE EntriesChanged(_, _, _)
EntriesChanged(o, o2, S) ==
  IF S = {} THEN 0
  ELSE LET p == CHOOSE q \in S : TRUE
       IN  EntryChange(o, o2, p) + EntriesChanged(o, o2, S \ {p})

\* what fix_bidirectional_connections makes of the network (ns, o, e): the
\* outcomes over the iteration orders of the sets it walks through
Repairs(ns, o, e) ==
  IF impl = "legacy"
  THEN {[objs |-> legacy_fix(ns, o).objs, gedges |-> e, fixes |-> legacy_fix(ns, o).fixes]}
  ELSE {core_fix(ns, o, e, ord) : ord \in Orderings(Ids)}

C25_RepairStepsCountTheirChanges ==
  [][last'.op = "fix" =>
       /\ validate_bidirectional_connections =>
            (last'.ret = 0 /\ objs' = objs /\ gedges' = gedges)
       /\ last'.ret = EntriesChanged(objs, objs', (DOMAIN objs) \X Ids)
       /\ last.op = "fix" => last'.ret = 0]_vars

C25_WitnessTwo ==
  /\ last.op = "fix"
  /\ last.ret = 2

\* node.neighbors of the view of a: the ends of the edges of a in the graph e
ViewNeighbors(e, a) == {b \in UNION (DOMAIN e) : \E k \in DOMAIN e : k = {a, b}}

\* the other nodes within the own communication_range of a
WithinOwnRange(a) ==
  {b \in Members \ {a} :
     (gattrs[a].x - gattrs[b].x) * (gattrs[a].x - gattrs[b].x)
       + (gattrs[a].y - gattrs[b].y) * (gattrs[a].y - gattrs[b].y)
         <= gattrs[a].communication_range * gattrs[a].communication_range}

\* C26: for node objects that are views over one graph, in every state reached
\* by add_neighbor, remove_neighbor and update_neighbors calls, b is a
\* neighbour of a if and only if a is a neighbour of b (and no node is its own
\* neighbour); update_neighbors on a leaves every edge that is not incident to
\* a as it was and leaves a connected to exactly the other nodes within a's
\* own communication_range.
C26_ViewsStaySymmetric ==
  /\ \A a \in Members, b \in Members :
       b \in ViewNeighbors(gedges, a) <=> a \in ViewNeighbors(gedges, b)
  /\ \A a \in Members : a \notin ViewNeighbors(gedges, a)
  /\ UNION (DOMAIN gedges) \subseteq Members
  /\ \A a \in Members :
       LET updated == view_update_neighbors(gattrs, gedges, a, nodes)
       IN  /\ \A k \in DOMAIN gedges \cup DOMAIN updated :
                a \notin k =>
                  /\ k \in DOMAIN gedges
                  /\ k \in DOMAIN updated
                  /\ updated[k] = gedges[k]
           /\ ViewNeighbors(updated, a) = WithinOwnRange(a)

\* update_neighbors on a node of three has dropped its edge to a node beyond
\* its own range, has connected it to a node within its range, and has left the
\* edge between the two other nodes
C26_Witness ==
  /\ last.op = "update_neighbors"
  /\ Len(nodes) = 3
  /\ \E b \in Members, c \in Members :
       /\ Cardinality({last.arg, b, c}) = 3
       /\ b \in WithinOwnRange(last.arg)
       /\ c \notin WithinOwnRange(last.arg)
       /\ last.arg \in WithinOwnRange(c)
       /\ DOMAIN gedges = {{last.arg, b}, {b, c}}

\* C27: in the legacy iot_node.py, from the empty network, every sequence of
\* add_node, remove_node, update_all_connections, add_neighbor, remove_neighbor
\* and update_neighbors keeps the neighbour lists symmetric: validate is true in
\* every reachable state.
C27_LegacyListsStaySymmetric ==
  \A a \in Members, b \in Members : Lists(objs, a, b) => Lists(objs, b, a)

\* every operation but update_neighbors leaves a symmetric network symmetric
C27_OtherOperationsKeepSymmetry ==
  [][(legacy_validate(nodes, objs) /\ last'.op # "update_neighbors")
       => legacy_validate(nodes', objs')]_vars

\* update_neighbors has left a node listing a neighbour that does not list it
C27_Witness ==
  /\ last.op = "update_neighbors"
  /\ ~legacy_validate(nodes, objs)
  /\ \E a \in Members, b \in Members : OneSidedPair(objs, a, b)

\* something connects a and b: a list entry on either side or an edge
Connected(o, e, a, b) == Lists(o, a, b) \/ Lists(o, b, a) \/ {a, b} \in DOMAIN e

\* a and b are within the larger of their two ranges
WithinSomeRange(o, a, b) ==
  \/ can_communicate_with(o, a, b)
  \/ can_communicate_with(o, b, a)

\* C28: after load_from_file followed by fix_bidirectional_connections, every
\* connection of the network satisfies the predicate update_all_connections of
\* the same implementation applies to the loaded attributes; a reference of the
\* file between two nodes that are out of range of each other does not survive.
C28_LoadedEdgesPassRepair ==
  last.op = "load_from_file" =>
    \A res \in Repairs(nodes, objs, gedges) :
      \A a \in Members, b \in Members :
        (a # b /\ Connected(res.objs, res.gedges, a, b)) =>
          /\ InPolicyRange(objs, a, b)
          /\ WithinSomeRange(objs, a, b)

\* what the legacy load and repair guarantee: a connection that survives is
\* within the range of at least one of its two nodes
C28_LegacySurvivorsWithinSomeRange ==
  (impl = "legacy" /\ last.op = "load_from_file") =>
    \A res \in Repairs(nodes, objs, gedges) :
      \A a \in Members, b \in Members :
        (a # b /\ Connected(res.objs, res.gedges, a, b)) => WithinSomeRange(objs, a, b)

\* core has loaded a file with a reference between two nodes out of range of
\* each other, and the repair leaves the two connected
C28_Witness ==
  /\ impl = "core"
  /\ last.op = "load_from_file"
  /\ \E res \in Repairs(nodes, objs, gedges) :
       \E a \in Members, b \in Members :
         /\ a # b
         /\ FileLists(last.arg, a, b)
         /\ ~WithinSomeRange(objs, a, b)
         /\ Linked(res.objs, res.gedges, a, b)

\* legacy has loaded a reference between two nodes of which only the listing
\* one reaches the other, and the repair leaves the two connected
C28_WitnessLegacy ==
  /\ impl = "legacy"
  /\ last.op = "load_from_file"
  /\ \E res \in Repairs(nodes, objs, gedges) :
       \E a \in Members, b \in Members :
         /\ a # b
         /\ ~InPolicyRange(objs, a, b)
         /\ Linked(res.objs, res.gedges, a, b)

C29_WitnessAnyFile ==
  /\ answer.op = "find_path"
  /\ answer.kind = "path"
  /\ ~IsNetworkFile(network.nodes)
  /\ Len(answer.path) >= 2

\* what find_path(a, b) returns in the current state of the PathFinder
Answer(a, b) == find_path(network.nodes, distance, previous_nodes, a, b).result

\* the two directions of a query agree on the hop count
SameHopsBothWays(a, b) ==
  /\ Answer(a, b).kind = Answer(b, a).kind
  /\ Answer(a, b).hops = Answer(b, a).hops

\* C30: for every network file the PathFinder has loaded and every two nodes a
\* and b of it, find_path(a, b) and find_path(b, a) return the same hop count,
\* both infinite or the same finite number, also when the neighbour lists of
\* the file are one-sided.
C30_HopCountIsSymmetric ==
  network.loaded =>
    \A a \in Recorded(network.nodes), b \in Recorded(network.nodes) :
      SameHopsBothWays(a, b)

\* the same for the persisted networks whose neighbour lists are symmetric
C30_SymmetricFilesGiveSymmetricHops ==
  (network.loaded /\ IsNetworkFile(network.nodes) /\ FileValid(network.nodes)) =>
    \A a \in Recorded(network.nodes), b \in Recorded(network.nodes) :
      SameHopsBothWays(a, b)

\* find_path has found no path from a node to a node that lists it, on a
\* persisted network: the other direction is one hop
C30_Witness ==
  /\ answer.op = "find_path"
  /\ answer.kind = "none"
  /\ IsNetworkFile(network.nodes)
  /\ answer.source \in ListedBy(network.nodes, answer.destination)
  /\ Answer(answer.destination, answer.source).kind = "path"
  /\ Answer(answer.destination, answer.source).hops = 1

\* both directions have the same number of hops on the path graph
C30_WitnessSymmetric ==
  /\ network.nodes = PathGraphFile
  /\ Answer(11, 14).hops = 3
  /\ Answer(14, 11).hops = 3

====
